---- MODULE Spec2Model ----
(***************************************************************************)
(* State-machine model of the avatar performance core of AI-Girlfriend:    *)
(* the TTS audio queue (ttsPlayer), the face controller's expression and   *)
(* lip targets (face), the text -> phoneme converter (TextPhoneme), the     *)
(* reconnecting WebSocket client (ws) and the inbound message dispatch.    *)
(*                                                                         *)
(* Units: time in milliseconds; blend weights in ten-thousandths (ONE is   *)
(* the weight 1.0), a phoneme event's weight in hundredths; blink progress *)
(* in units of 1/PROG_ONE.  A phoneme duration is the rational num/den ms. *)
(* JavaScript objects are functions with a finite domain; a missing key    *)
(* reads as undefined (see Get).  null/undefined/'' are the empty string   *)
(* or 0 where the code only tests truthiness.                              *)
(***************************************************************************)
EXTENDS Integers, Sequences, FiniteSets, TLC

\* ------------------------------------------------------------------ bounds
\* Number of audio items the environment enqueues in one behaviour.
MaxItems == 3
\* Number of action clip loads that may be in flight at once.
MaxLoads == 2
\* Number of times the environment closes the connection in one behaviour.
MaxCloses == 2
\* Number of avatar (re)loads in one behaviour.
MaxAvatars == 2

\* Number of render frames in one behaviour of Spec.
MaxFrames == 1
\* Number of render frames in one behaviour of SpecBlend.
MaxTicks == 4

\* ------------------------------------------------------- program constants
NEUTRAL_GRACE_MS == 1500
LIP_NEUTRAL_MS == 500
RECONNECT_MS == 2000
MAX_DELTA_MS == 50
\* The weight 1.0.
ONE == 10000
\* The blink progress 1.0 (delta / 0.08 s is a whole number of these units for
\* every whole number of milliseconds).
PROG_ONE == 2000
\* The distance under which the expression cross-fade snaps to its target (0.001).
SNAP == 10
\* this._blinkDur = 0.08
BLINK_DUR_MS == 80
\* crossFadeTo(newAction, 0.5, false): the crossfade window, in ms.
CROSSFADE_MS == 500
\* currentAction.fadeOut(0.8) of an action that reached its end, in ms.
FADE_OUT_MS == 800
\* The delay of the callback that stops the faded action, in ms.
STOP_DELAY_MS == 800

\* How far the clock moves in one Advance step (never past a pending deadline).
TimeSteps == {1000}

\* --------------------------------------------------------------- alphabets
NoShape == "null"
EXPR_KEYS == {"happy", "sad", "angry", "surprised", "thinking", "neutral",
              "excited", "worried", "love"}

\* face.EXPR_NAMES[key]: emotion key -> blendshape preset. EXPR_NAMES is an
\* object literal, so a key it does not own is looked up on Object.prototype:
\* "constructor" and "toString" yield functions (written here as the strings
\* they become as property keys); any other missing key is undefined ("").
EXPR_NAMES(key) ==
  CASE key = "happy" -> "happy"
    [] key = "sad" -> "sad"
    [] key = "angry" -> "angry"
    [] key = "surprised" -> "surprised"
    [] key = "thinking" -> "relaxed"
    [] key = "neutral" -> "neutral"
    [] key = "excited" -> "happy"
    [] key = "worried" -> "sad"
    [] key = "love" -> "happy"
    [] key = "constructor" -> "function Object"
    [] key = "toString" -> "function toString"
    [] OTHER -> ""

\* [...new Set(Object.values(this.EXPR_NAMES))]
AllNames == {EXPR_NAMES(k) : k \in EXPR_KEYS}

LIP_SHAPES == {"aa", "ih", "ou", "ee", "oh"}

\* obj[key] ?? dflt
Get(obj, key, dflt) == IF key \in DOMAIN obj THEN obj[key] ELSE dflt

\* obj[key] = val (adds the key when it is missing)
Put(obj, key, val) == [k \in (DOMAIN obj) \cup {key} |-> IF k = key THEN val ELSE obj[k]]

\* ------------------------------------------------------------ TextPhoneme
\* A text is a sequence of characters, each a one-character string; the
\* character U+2026 is written "ellipsis" and a decorative non-ASCII character
\* (an emoji) "emoji".
SepChars == {" ", "\n", ".", ",", "!", "?", "~", "ellipsis", "-", ";", ":", "'", "\"", "(", ")"}
LongPauseChars == {".", ",", "!", "?", "~", "ellipsis"}
VowelChars == {"a", "e", "i", "o", "u", "y", "A", "E", "I", "O", "U", "Y"}

\* TextPhoneme.CHAR_MAP restricted to the vowels parse looks up: [shape, weight].
CHAR_MAP(v) ==
  CASE v \in {"a", "A"} -> <<"aa", 85>>
    [] v \in {"e", "E"} -> <<"ee", 55>>
    [] v \in {"i", "I"} -> <<"ih", 50>>
    [] v \in {"y", "Y"} -> <<"ih", 35>>
    [] v \in {"o", "O"} -> <<"oh", 70>>
    [] v \in {"u", "U"} -> <<"ou", 50>>
    [] OTHER -> <<"aa", 60>>

Ev(shape, weight, ms) == [shape |-> shape, weight |-> weight, num |-> ms, den |-> 1]

\* text.split(/([\s.,!?~ellipsis\-;:'"()]+)/) without the empty tokens: maximal runs
\* of separator characters alternate with maximal runs of the other characters.
RECURSIVE Tokens(_, _, _)
Tokens(text, i, cur) ==
  IF i > Len(text) THEN (IF cur = <<>> THEN <<>> ELSE <<cur>>)
  ELSE IF cur = <<>> \/ ((cur[1] \in SepChars) <=> (text[i] \in SepChars))
       THEN Tokens(text, i + 1, Append(cur, text[i]))
       ELSE <<cur>> \o Tokens(text, i + 1, <<text[i]>>)

\* A vowel match that does not count y as a vowel.
VowelsWithoutY(token) == SelectSeq(token, LAMBDA c : c \in VowelChars \ {"y", "Y"})

\* token.match(/[aeiouyAEIOUY]/g)
Vowels(token) == SelectSeq(token, LAMBDA c : c \in VowelChars)

RECURSIVE VowelEvents(_)

\* Syllable events whose micro-close between syllables takes no time.
VowelEventsZeroClose(vs) ==
  IF vs = <<>> THEN <<>>
  ELSE <<Ev(CHAR_MAP(vs[1])[1], CHAR_MAP(vs[1])[2], 120), Ev(NoShape, 10, 0)>>
       \o VowelEvents(Tail(vs))

VowelEvents(vs) ==
  IF vs = <<>> THEN <<>>
  ELSE <<Ev(CHAR_MAP(vs[1])[1], CHAR_MAP(vs[1])[2], 120), Ev(NoShape, 10, 30)>>
       \o VowelEvents(Tail(vs))

\* Token events without the brief pause after a word.
TokenEventsNoWordPause(token) ==
  IF token[1] \in SepChars
  THEN <<Ev(NoShape, 0, IF \E j \in 1..Len(token) : token[j] \in LongPauseChars
                         THEN 300 ELSE 80)>>
  ELSE IF Vowels(token) # <<>> THEN VowelEvents(Vowels(token))
       ELSE <<Ev("ih", 40, 150)>>

\* The events one token contributes (the body of parse's for-loop).
TokenEvents(token) ==
  IF token[1] \in SepChars
  THEN <<Ev(NoShape, 0, IF \E j \in 1..Len(token) : token[j] \in LongPauseChars
                         THEN 300 ELSE 80)>>
  ELSE (IF Vowels(token) # <<>> THEN VowelEvents(Vowels(token))
        ELSE <<Ev("ih", 40, 150)>>)
       \o <<Ev(NoShape, 0, 60)>>

RECURSIVE FlatEvents(_)
FlatEvents(tokens) ==
  IF tokens = <<>> THEN <<>>
  ELSE TokenEvents(tokens[1]) \o FlatEvents(Tail(tokens))

RECURSIVE TotalNum(_)
TotalNum(events) ==
  IF events = <<>> THEN 0 ELSE events[1].num + TotalNum(Tail(events))

\* audio.duration as parse sees it: 0 stands for NaN/Infinity/0 (no scaling).
\* TextPhoneme.parse(text, targetDuration)
parse(text, targetDuration) ==
  LET events == FlatEvents(Tokens(text, 1, <<>>))
      totalDur == TotalNum(events)
  IN IF targetDuration > 0 /\ totalDur > 0
     THEN [i \in 1..Len(events) |->
             [events[i] EXCEPT !.num = @ * targetDuration, !.den = totalDur]]
     ELSE events

\* ------------------------------------------------------------------ state
VARIABLES
  face,        \* the face controller object: _exprCurrent, _exprTarget, _activeExpr,
               \* _phonQueue, _phonTimer, _phonCurrent, _lipCurrent, _lipTarget,
               \* _speaking, blink fields, vrm
  ttsPlayer,   \* the audio queue object: _queue, _playing, _currentAudio
               \* (_neutralTimer is the timer whose held flag is set, see timers)
  audios,      \* every Audio element created by _playNext, in creation order
  timers,      \* pending setTimeout callbacks, in creation order
  ws,          \* the WebSocket client: socket (index into sockets, 0 = null), status
  sockets,     \* readyState of every WebSocket created by ws.connect
  avatar,      \* currentVRM / currentMixer generation (0 = null), hasInitializedOnce
  loads,       \* handleAction calls whose clip load has not settled yet
  started,     \* id of the item _playNext last created an Audio element for (0 = none)
  env          \* the environment's counters: items enqueued, closes delivered,
               \* avatars loaded, frames rendered; delta, the frame time of a run
               \* with a steady frame rate; and two stopwatch readings of the
               \* blink in progress: blinkSpan, the time since the frame that
               \* started it, and blinkDelta, the frame time of its frames if
               \* they all had the same (0 if not, or if no blink is in progress)

vars == <<face, ttsPlayer, audios, timers, ws, sockets, avatar, loads, started, env>>

\* ------------------------------------------------------------------- face
\* face.setEmotion(key)
setEmotion(f, key) ==
  LET preset == IF EXPR_NAMES(key) # "" THEN EXPR_NAMES(key) ELSE "neutral"
  IN IF preset = f._activeExpr THEN f
     ELSE [f EXCEPT !._activeExpr = preset,
                    !._exprTarget = Put(Put(f._exprTarget, f._activeExpr, 0), preset, ONE)]

\* face.returnToNeutral()
returnToNeutral(f) == setEmotion(f, "neutral")

\* this.LIP_SHAPES.forEach(n => { this._lipTarget[n] = 0; })
ClearLipTargets(lt) == [n \in (DOMAIN lt) \cup LIP_SHAPES |-> IF n \in LIP_SHAPES THEN 0 ELSE lt[n]]

\* face.startSpeaking(text, duration)
startSpeaking(f, text, duration) ==
  [f EXCEPT !._phonQueue = parse(text, duration),
            !._phonTimer = 0,
            !._phonCurrent = <<>>,
            !._speaking = TRUE,
            !._lipTarget = ClearLipTargets(@)]

\* A stopSpeaking that also shuts the mouth at once.
StopSpeakingSnapsMouth(f) ==
  [f EXCEPT !._speaking = FALSE,
            !._phonQueue = <<>>,
            !._lipTarget = ClearLipTargets(@),
            !._lipCurrent = ClearLipTargets(@)]

\* face.stopSpeaking()
stopSpeaking(f) ==
  [f EXCEPT !._speaking = FALSE,
            !._phonQueue = <<>>,
            !._lipTarget = ClearLipTargets(@)]

\* face.init(vrm); r is Math.random() in percent
faceInit(f, vrm, r) ==
  [f EXCEPT !.vrm = vrm,
            !.emBlink = 0,
            !._blinkTimer = 2000 + r * 30,
            !._exprCurrent = [n \in (DOMAIN @) \cup AllNames |-> IF n \in AllNames THEN 0 ELSE @[n]],
            !._exprTarget = [n \in (DOMAIN @) \cup AllNames |->
                               IF n = "neutral" THEN ONE ELSE IF n \in AllNames THEN 0 ELSE @[n]],
            !._lipCurrent = [n \in (DOMAIN @) \cup LIP_SHAPES |-> IF n \in LIP_SHAPES THEN 0 ELSE @[n]],
            !._lipTarget = ClearLipTargets(@)]

\* ------------------------------------------------------------ face.update
\* x * n / d, rounded away from zero: like the floating-point product, it is 0
\* only when x is 0, and for n < d it is never larger in size than x
MulDiv(x, n, d) ==
  IF x >= 0 THEN (x * n + d - 1) \div d ELSE -(((-x) * n + d - 1) \div d)

Clamp(x, lo, hi) == IF x < lo THEN lo ELSE IF x > hi THEN hi ELSE x

Abs(x) == IF x < 0 THEN -x ELSE x

\* A lerp that steps past the target: speed 1 + delta * rate.
LerpOvershoots(cur, tgt, delta, ratePerSec10) ==
  cur + MulDiv(tgt - cur, 10000 + delta * ratePerSec10, 10000)

\* A lerp whose step is rounded toward zero, so that it can be 0 before the
\* target is reached.
LerpTruncates(cur, tgt, delta, ratePerSec10) ==
  IF tgt >= cur THEN cur + ((tgt - cur) * delta * ratePerSec10) \div 10000
  ELSE cur - ((cur - tgt) * delta * ratePerSec10) \div 10000

\* cur + (tgt - cur) * Math.min(1, delta * rate), rate = ratePerSec10 / 10 per second
Lerp(cur, tgt, delta, ratePerSec10) ==
  IF delta * ratePerSec10 >= 10000 THEN tgt
  ELSE cur + MulDiv(tgt - cur, delta * ratePerSec10, 10000)

\* 1. expression cross-fade: the new _exprCurrent
ExprFade(f, delta) ==
  [name \in DOMAIN f._exprCurrent |->
     LET tgt == Get(f._exprTarget, name, 0)
         cur == f._exprCurrent[name]
     IN IF Abs(tgt - cur) < SNAP THEN tgt ELSE Lerp(cur, tgt, delta, 55)]

\* the current phoneme event is over (or there is none yet)
PhonemeDue(f, delta) ==
  \/ f._phonCurrent = <<>>
  \/ (f._phonTimer + delta) * f._phonCurrent.den >= f._phonCurrent.num

\* step 2 runs this.stopSpeaking() and schedules the return to neutral
LipExhausted(f, delta) ==
  f._speaking /\ PhonemeDue(f, delta) /\ f._phonQueue = <<>>

\* A lip sync that sets the target of the new shape without clearing the others.
LipSyncKeepsTargets(f, delta, rVar) ==
  IF ~f._speaking THEN f
  ELSE IF ~PhonemeDue(f, delta) THEN [f EXCEPT !._phonTimer = @ + delta]
  ELSE IF f._phonQueue # <<>>
  THEN LET ev == Head(f._phonQueue)
           variation == 50 + (rVar * 30) \div 100
       IN [f EXCEPT !._phonCurrent = ev,
                    !._phonQueue = Tail(@),
                    !._phonTimer = 0,
                    !._lipTarget = IF ev.shape # NoShape
                                   THEN Put(@, ev.shape,
                                            IF ev.weight * variation > ONE THEN ONE
                                            ELSE ev.weight * variation)
                                   ELSE @]
  ELSE stopSpeaking([f EXCEPT !._phonTimer = @ + delta])

\* 2. text-driven lip sync; rVar is Math.random() in percent
LipSync(f, delta, rVar) ==
  IF ~f._speaking THEN f
  ELSE IF ~PhonemeDue(f, delta) THEN [f EXCEPT !._phonTimer = @ + delta]
  ELSE IF f._phonQueue # <<>>
  THEN LET ev == Head(f._phonQueue)
           cleared == ClearLipTargets(f._lipTarget)
           variation == 50 + (rVar * 30) \div 100
       IN [f EXCEPT !._phonCurrent = ev,
                    !._phonQueue = Tail(@),
                    !._phonTimer = 0,
                    !._lipTarget = IF ev.shape # NoShape
                                   THEN Put(cleared, ev.shape,
                                            IF ev.weight * variation > ONE THEN ONE
                                            ELSE ev.weight * variation)
                                   ELSE cleared]
  ELSE stopSpeaking([f EXCEPT !._phonTimer = @ + delta])

\* 3. lip lerp: the new _lipCurrent
LipLerp(f, delta) ==
  [name \in (DOMAIN f._lipCurrent) \cup LIP_SHAPES |->
     IF name \in LIP_SHAPES
     THEN Lerp(Get(f._lipCurrent, name, 0), Get(f._lipTarget, name, 0), delta, 120)
     ELSE f._lipCurrent[name]]

\* A blink that returns to idle as soon as the eye is closed.
BlinkSkipsOpening(f, delta, rBlink) ==
  LET f1 == IF f._blinkTimer - delta <= 0
            THEN [f EXCEPT !._blinkState = "closing",
                           !._blinkTimer = 2000 + rBlink * 40,
                           !._blinkDur = BLINK_DUR_MS,
                           !._blinkProg = 0]
            ELSE [f EXCEPT !._blinkTimer = @ - delta]
      prog == f1._blinkProg + (delta * PROG_ONE) \div f1._blinkDur
      f2 == IF f1._blinkState = "idle" THEN f1
            ELSE IF f1._blinkState = "closing"
            THEN (IF prog >= PROG_ONE
                  THEN [f1 EXCEPT !._blinkProg = 0, !._blinkState = "idle"]
                  ELSE [f1 EXCEPT !._blinkProg = prog])
            ELSE (IF prog >= 2 * PROG_ONE
                  THEN [f1 EXCEPT !._blinkProg = 0, !._blinkState = "idle"]
                  ELSE [f1 EXCEPT !._blinkProg = prog])
      amt == IF f2._blinkState = "closing" THEN f2._blinkProg ELSE 2 * PROG_ONE - f2._blinkProg
  IN [f2 EXCEPT !.emBlink = IF f1._blinkState # "idle"
                            THEN (Clamp(amt, 0, PROG_ONE) * ONE) \div PROG_ONE
                            ELSE 0]

\* A blink whose opening phase lasts twice as long.
BlinkOpensSlowly(f, delta, rBlink) ==
  LET f1 == IF f._blinkTimer - delta <= 0
            THEN [f EXCEPT !._blinkState = "closing",
                           !._blinkTimer = 2000 + rBlink * 40,
                           !._blinkDur = BLINK_DUR_MS,
                           !._blinkProg = 0]
            ELSE [f EXCEPT !._blinkTimer = @ - delta]
      prog == f1._blinkProg + (delta * PROG_ONE) \div f1._blinkDur
      f2 == IF f1._blinkState = "idle" THEN f1
            ELSE IF f1._blinkState = "closing"
            THEN (IF prog >= PROG_ONE
                  THEN [f1 EXCEPT !._blinkProg = PROG_ONE, !._blinkState = "opening"]
                  ELSE [f1 EXCEPT !._blinkProg = prog])
            ELSE (IF prog >= 3 * PROG_ONE
                  THEN [f1 EXCEPT !._blinkProg = 0, !._blinkState = "idle"]
                  ELSE [f1 EXCEPT !._blinkProg = prog])
      amt == IF f2._blinkState = "closing" THEN f2._blinkProg ELSE 2 * PROG_ONE - f2._blinkProg
  IN [f2 EXCEPT !.emBlink = IF f1._blinkState # "idle"
                            THEN (Clamp(amt, 0, PROG_ONE) * ONE) \div PROG_ONE
                            ELSE 0]

\* face._handleExpressions(em, delta), blinking; rBlink is Math.random() in percent
Blink(f, delta, rBlink) ==
  LET f1 == IF f._blinkTimer - delta <= 0
            THEN [f EXCEPT !._blinkState = "closing",
                           !._blinkTimer = 2000 + rBlink * 40,
                           !._blinkDur = BLINK_DUR_MS,
                           !._blinkProg = 0]
            ELSE [f EXCEPT !._blinkTimer = @ - delta]
      prog == f1._blinkProg + (delta * PROG_ONE) \div f1._blinkDur
      f2 == IF f1._blinkState = "idle" THEN f1
            ELSE IF f1._blinkState = "closing"
            THEN (IF prog >= PROG_ONE
                  THEN [f1 EXCEPT !._blinkProg = PROG_ONE, !._blinkState = "opening"]
                  ELSE [f1 EXCEPT !._blinkProg = prog])
            ELSE (IF prog >= 2 * PROG_ONE
                  THEN [f1 EXCEPT !._blinkProg = 0, !._blinkState = "idle"]
                  ELSE [f1 EXCEPT !._blinkProg = prog])
      amt == IF f2._blinkState = "closing" THEN f2._blinkProg ELSE 2 * PROG_ONE - f2._blinkProg
  IN [f2 EXCEPT !.emBlink = IF f1._blinkState # "idle"
                            THEN (Clamp(amt, 0, PROG_ONE) * ONE) \div PROG_ONE
                            ELSE 0]

\* face.update(delta, elapsed); currentAction is the playing action clip
\* (0 = none).  Of the expression manager only the eyelid weight (emBlink) is
\* kept; the head look and the bone rotations are not modelled, proceduralBody
\* records whether this frame ran _proceduralBody.
update(f, delta, rVar, rBlink, currentAction) ==
  LET f1 == [f EXCEPT !._exprCurrent = ExprFade(f, delta)]
      f2 == LipSync(f1, delta, rVar)
      f3 == [f2 EXCEPT !._lipCurrent = LipLerp(f2, delta)]
      f4 == Blink(f3, delta, rBlink)
  IN [f4 EXCEPT !.proceduralBody = (currentAction = 0)]

\* ----------------------------------------------------------------- timers
\* setTimeout(cb, ms): kind names the callback; held marks the timer whose handle
\* ttsPlayer._neutralTimer holds.
SetTimeout(ts, kind, ms) == Append(ts, [kind |-> kind, rem |-> ms, held |-> FALSE])

\* this._neutralTimer = setTimeout(() => face.returnToNeutral(), 1500)
SetNeutralTimer(ts) ==
  Append([i \in 1..Len(ts) |-> [ts[i] EXCEPT !.held = FALSE]],
         [kind |-> "neutral", rem |-> NEUTRAL_GRACE_MS, held |-> TRUE])

\* clearTimeout(this._neutralTimer)
ClearNeutralTimer(ts) == SelectSeq(ts, LAMBDA t : ~t.held)

RemoveAt(s, i) == [j \in 1..(Len(s) - 1) |-> IF j < i THEN s[j] ELSE s[j + 1]]

\* -------------------------------------------------------------- ttsPlayer
\* The part of the state _playNext and the audio listeners work on.
Machine ==
  [face |-> face, tts |-> ttsPlayer, audios |-> audios, timers |-> timers,
   started |-> started]

\* new Audio(objUrl) with its listeners attached and play() called
NewAudio(item) ==
  [id |-> item.id, text |-> item.text, emotion |-> item.emotion,
   st |-> "loading", promise |-> "pending", paused |-> FALSE, duration |-> 0,
   revoked |-> 0]

RECURSIVE _playNext(_)

\* A _playNext that takes the newest waiting item instead of the oldest.
PlayNextNewestFirst(m) ==
  IF m.tts._queue = <<>>
  THEN [m EXCEPT !.tts._playing = FALSE,
                 !.face = stopSpeaking(@),
                 !.timers = SetNeutralTimer(@)]
  ELSE LET item == m.tts._queue[Len(m.tts._queue)]
           m1 == [m EXCEPT !.tts._playing = TRUE,
                           !.tts._queue = SubSeq(@, 1, Len(@) - 1)]
       IN IF ~item.b64ok
          THEN _playNext([m1 EXCEPT !.tts._playing = FALSE])
          ELSE [m1 EXCEPT !.audios = Append(@, NewAudio(item)),
                          !.tts._currentAudio = item.id,
                          !.started = item.id]

\* ttsPlayer._playNext()
_playNext(m) ==
  IF m.tts._queue = <<>>
  THEN [m EXCEPT !.tts._playing = FALSE,
                 !.face = stopSpeaking(@),
                 !.timers = SetNeutralTimer(@)]
  ELSE LET item == Head(m.tts._queue)
           m1 == [m EXCEPT !.tts._playing = TRUE, !.tts._queue = Tail(@)]
       IN IF ~item.b64ok
          THEN _playNext([m1 EXCEPT !.tts._playing = FALSE])
          ELSE [m1 EXCEPT !.audios = Append(@, NewAudio(item)),
                          !.tts._currentAudio = item.id,
                          !.started = item.id]

\* An enqueue that applies the item's emotion when the item arrives.
EnqueueAppliesEmotion(m, item) ==
  LET m1 == [m EXCEPT !.timers = ClearNeutralTimer(@),
                      !.tts._queue = Append(@, item),
                      !.face = IF item.emotion # "" THEN setEmotion(@, item.emotion) ELSE @]
  IN IF ~m1.tts._playing THEN _playNext(m1) ELSE m1

\* ttsPlayer.enqueue(b64, text, emotion)
enqueue(m, item) ==
  LET m1 == [m EXCEPT !.timers = ClearNeutralTimer(@),
                      !.tts._queue = Append(@, item)]
  IN IF ~m1.tts._playing THEN _playNext(m1) ELSE m1

AudioIndex(as, id) == CHOOSE i \in 1..Len(as) : as[i].id = id

\* audio.pause() on the element ttsPlayer._currentAudio refers to: a play()
\* promise that is still pending is rejected (AbortError)
Pause(as, id) ==
  [i \in 1..Len(as) |->
     IF as[i].id # id THEN as[i]
     ELSE [as[i] EXCEPT !.paused = TRUE,
                        !.promise = IF @ = "pending" THEN "rejecting" ELSE @]]

\* A clear() that also returns the expression layer to neutral.
ClearReturnsToNeutral(m) ==
  [m EXCEPT !.tts._queue = <<>>,
            !.audios = IF m.tts._currentAudio # 0 THEN Pause(@, m.tts._currentAudio) ELSE @,
            !.tts._currentAudio = 0,
            !.face = returnToNeutral(stopSpeaking(@)),
            !.timers = ClearNeutralTimer(@),
            !.tts._playing = FALSE]

\* A clear() that leaves the pending return to neutral in place.
ClearKeepsNeutralTimer(m) ==
  [m EXCEPT !.tts._queue = <<>>,
            !.audios = IF m.tts._currentAudio # 0 THEN Pause(@, m.tts._currentAudio) ELSE @,
            !.tts._currentAudio = 0,
            !.face = stopSpeaking(@),
            !.tts._playing = FALSE]

\* ttsPlayer.clear()
clear(m) ==
  [m EXCEPT !.tts._queue = <<>>,
            !.audios = IF m.tts._currentAudio # 0 THEN Pause(@, m.tts._currentAudio) ELSE @,
            !.tts._currentAudio = 0,
            !.face = stopSpeaking(@),
            !.timers = ClearNeutralTimer(@),
            !.tts._playing = FALSE]

\* the 'playing' listener of audio i
onPlaying(m, i) ==
  LET a == m.audios[i]
      f1 == IF a.emotion # "" THEN setEmotion(m.face, a.emotion) ELSE m.face
  IN [m EXCEPT !.face = startSpeaking(f1, a.text, a.duration)]

\* An 'ended' / 'error' listener that does not advance the queue.
OnFinishedStalls(m, i) ==
  [m EXCEPT !.face = stopSpeaking(@),
            !.audios[i].revoked = @ + 1,
            !.tts._currentAudio = 0]

\* the common body of the 'ended' and 'error' listeners of audio i
onFinished(m, i) ==
  _playNext([m EXCEPT !.face = stopSpeaking(@),
                      !.audios[i].revoked = @ + 1,
                      !.tts._currentAudio = 0])

\* the play().catch handler of audio i
onPlayRejected(m, i) ==
  _playNext([m EXCEPT !.face = stopSpeaking(@),
                      !.audios[i].revoked = @ + 1,
                      !.tts._currentAudio = 0,
                      !.tts._playing = FALSE])

\* An Audio element that can still deliver an event to its listeners or settle
\* its play() promise; the others are garbage.
Live(a) ==
  \/ a.promise \in {"pending", "rejecting"}
  \/ a.st = "playing" /\ ~a.paused

\* The state after a handler has run.
Commit(m) ==
  /\ face' = m.face
  /\ ttsPlayer' = m.tts
  /\ audios' = SelectSeq(m.audios, Live)
  /\ timers' = m.timers
  /\ started' = m.started

\* --------------------------------------------------------------------- ws
\* ws.connect(): a new WebSocket, status 'connecting'
connect(w, socks) ==
  [ws |-> [w EXCEPT !.socket = Len(socks) + 1, !.status = "connecting"],
   sockets |-> Append(socks, "connecting")]

\* actionPath.split('.').pop().toLowerCase() for the paths of ActionPaths
FileType(path) ==
  CASE path = "dance.fbx" -> "fbx"
    [] path = "Wave.VRMA" -> "vrma"
    [] path = "pose.txt" -> "txt"
    [] OTHER -> path

\* handleAction up to its first await: TRUE when a clip load is started
StartsLoad(actionPath, av) ==
  /\ actionPath # ""
  /\ av.currentVRM # 0
  /\ av.currentMixer # 0
  /\ FileType(actionPath) \in {"fbx", "vrma"}

\* JSON.parse(ev.data): "garbage" does not parse (throws), "null" parses to
\* null, "json" parses to the object the payload carries
ParseThrows(payload) == payload.wire = "garbage"

\* ws._handle(cmd) throws before it changes anything (cmd.type of null)
HandleThrows(payload) == payload.wire = "null"

\* ---------------------------------------------------------------------------
\* The action player: clips played on the avatar's AnimationMixer
\* ---------------------------------------------------------------------------

\* The place of a new trigger in the order of the action triggers: after every
\* load that is pending and every action that has started.
NextSeq(ls, av) ==
  LET used == {0} \cup {ls[k].seq : k \in 1..Len(ls)}
                  \cup {av.actions[k].seq : k \in 1..Len(av.actions)}
  IN 1 + CHOOSE m \in used : \A n \in used : n <= m

\* mixer.clipAction(clip) followed by setLoop(LoopOnce, 1), clampWhenFinished,
\* reset().play(): an action of the given mixer at the start of its clip. w is
\* the effective weight the mixer computed last (1 before the first update),
\* seq the place of its trigger among the triggers.
NewAction(id, mixer, duration, seq) ==
  [id |-> id, seq |-> seq, mixer |-> mixer, duration |-> duration, st |-> "running", time |-> 0,
   enabled |-> TRUE, w |-> ONE, fade |-> "none", fadeT |-> 0, fadeDur |-> 0]

\* action.fadeIn(ms / 1000)
fadeIn(a, ms) == [a EXCEPT !.fade = "in", !.fadeT = 0, !.fadeDur = ms]

\* action.fadeOut(ms / 1000)
fadeOut(a, ms) == [a EXCEPT !.fade = "out", !.fadeT = 0, !.fadeDur = ms]

\* action.stop(): the action leaves its mixer and is reset
stop(a) == [a EXCEPT !.st = "stopped", !.time = 0, !.enabled = TRUE,
                     !.fade = "none", !.fadeT = 0, !.fadeDur = 0]

\* currentMixer.stopAllAction() of the avatar that is being replaced
stopAllAction(actions, mixer) ==
  [k \in 1..Len(actions) |->
     IF actions[k].mixer = mixer THEN stop(actions[k]) ELSE actions[k]]

\* currentAction.crossFadeTo(newAction, 0.5, false), currentAction = newAction
\* (the tail of the load callbacks); the new action is the last of the list
StartAction(av, mixer, duration, seq) ==
  LET id  == Len(av.actions) + 1
      cur == av.currentAction
      old == IF cur # 0
             THEN [av.actions EXCEPT ![cur] = fadeOut(@, CROSSFADE_MS)]
             ELSE av.actions
      new == IF cur # 0
             THEN fadeIn(NewAction(id, mixer, duration, seq), CROSSFADE_MS)
             ELSE NewAction(id, mixer, duration, seq)
  IN [av EXCEPT !.actions = Append(old, new), !.currentAction = id]

\* A LoopOnce action reaches the end of its clip in this update.
Finishes(a, delta) ==
  a.st = "running" /\ a.enabled /\ a.time + delta >= a.duration

\* The 'finished' listener finds the finishing action to be the current one.
FinishedCurrent(av, delta) ==
  /\ av.currentAction # 0
  /\ av.actions[av.currentAction].mixer = av.currentMixer
  /\ Finishes(av.actions[av.currentAction], delta)

\* The weight of a fade after ms of its duration (a linear interpolant).
FadeValue(kind, ms, dur) ==
  LET up == IF ms >= dur THEN ONE ELSE (ms * ONE) \div dur
  IN IF kind = "in" THEN up ELSE ONE - up

\* action._update(): the clip time first (a clip that ends is clamped and
\* 'finished' is dispatched: the listener fades the current action out over
\* 0.8 s), then the weight of the fade in progress
ActionUpdate(a, delta, isCurrent) ==
  LET fin   == Finishes(a, delta)
      fresh == fin /\ isCurrent
      a1 == IF ~a.enabled \/ a.st # "running" THEN a
            ELSE IF fin THEN [a EXCEPT !.time = a.duration, !.st = "clamped"]
            ELSE [a EXCEPT !.time = @ + delta]
      a2 == IF fresh THEN fadeOut(a1, FADE_OUT_MS)
            ELSE IF a1.fade # "none" THEN [a1 EXCEPT !.fadeT = @ + delta]
            ELSE a1
      val  == IF a2.fade = "none" THEN ONE ELSE FadeValue(a2.fade, a2.fadeT, a2.fadeDur)
      over == a2.fade # "none" /\ a2.fadeT > a2.fadeDur
  IN [a2 EXCEPT !.w = IF a2.enabled THEN val ELSE 0,
                !.fade = IF over THEN "none" ELSE @,
                !.fadeT = IF over THEN 0 ELSE @,
                !.fadeDur = IF over THEN 0 ELSE @,
                !.enabled = IF over /\ val = 0 THEN FALSE ELSE @]

\* currentMixer.update(delta): the actions of the avatar's mixer that have
\* not been stopped advance; the actions of a replaced mixer do not
MixerUpdate(av, delta) ==
  [k \in 1..Len(av.actions) |->
     IF av.actions[k].mixer = av.currentMixer /\ av.actions[k].st # "stopped"
     THEN ActionUpdate(av.actions[k], delta, av.currentAction = k)
     ELSE av.actions[k]]

\* setTimeout(() => { if (currentAction === e.action) ... }, 800)
SetStopTimer(ts, id) ==
  Append(ts, [kind |-> "actionStop", rem |-> STOP_DELAY_MS, held |-> FALSE, action |-> id])

\* ------------------------------------------------------------------ Init
Init ==
  /\ face = [vrm |-> 0, emBlink |-> 0, proceduralBody |-> FALSE,
             _exprCurrent |-> <<>>, _exprTarget |-> <<>>, _activeExpr |-> "neutral",
             _blinkTimer |-> 3000, _blinkState |-> "idle", _blinkProg |-> 0,
             _blinkDur |-> 100,
             _phonQueue |-> <<>>, _phonTimer |-> 0, _phonCurrent |-> <<>>,
             _lipCurrent |-> <<>>, _lipTarget |-> <<>>, _speaking |-> FALSE]
  /\ ttsPlayer = [_queue |-> <<>>, _playing |-> FALSE, _currentAudio |-> 0]
  /\ audios = <<>>
  /\ timers = <<>>
  /\ ws = [socket |-> 0, status |-> ""]
  /\ sockets = <<>>
  /\ avatar = [currentVRM |-> 0, currentMixer |-> 0, currentAction |-> 0,
               hasInitializedOnce |-> FALSE, actions |-> <<>>]
  /\ loads = <<>>
  /\ started = 0
  /\ env = [items |-> 0, closes |-> 0, avatars |-> 0, frames |-> 0,
            delta |-> MAX_DELTA_MS, blinkSpan |-> 0, blinkDelta |-> 0]

\* ---------------------------------------------------------------- actions
\* An avatar load that connects to the server every time.
AvatarLoadedConnectsAgain(r) ==
  /\ env.avatars < MaxAvatars
  /\ env' = [env EXCEPT !.avatars = @ + 1]
  /\ avatar' = [avatar EXCEPT !.currentVRM = env.avatars + 1,
                               !.currentMixer = env.avatars + 1,
                               !.hasInitializedOnce = TRUE,
                               !.actions = stopAllAction(@, avatar.currentMixer)]
  /\ face' = faceInit(face, env.avatars + 1, r)
  /\ ws' = connect(ws, sockets).ws
  /\ sockets' = connect(ws, sockets).sockets
  /\ UNCHANGED <<ttsPlayer, audios, timers, loads, started>>

\* loadVRMModel's onLoad callback; r is Math.random() in percent
AvatarLoaded(r) ==
  /\ env.avatars < MaxAvatars
  /\ env' = [env EXCEPT !.avatars = @ + 1]
  /\ avatar' = [avatar EXCEPT !.currentVRM = env.avatars + 1,
                               !.currentMixer = env.avatars + 1,
                               !.hasInitializedOnce = TRUE,
                               !.actions = stopAllAction(@, avatar.currentMixer)]
  /\ face' = faceInit(face, env.avatars + 1, r)
  /\ IF ~avatar.hasInitializedOnce
     THEN /\ ws' = connect(ws, sockets).ws
          /\ sockets' = connect(ws, sockets).sockets
     ELSE UNCHANGED <<ws, sockets>>
  /\ UNCHANGED <<ttsPlayer, audios, timers, loads, started>>

\* socket.onopen
SocketOpen(i) ==
  /\ sockets[i] = "connecting"
  /\ sockets' = [sockets EXCEPT ![i] = "open"]
  /\ ws' = [ws EXCEPT !.status = "connected"]
  /\ UNCHANGED <<face, ttsPlayer, audios, timers, avatar, loads, started, env>>

\* socket.onerror: the browser fires error on a failing socket, whose close
\* event then follows
SocketError(i) ==
  /\ sockets[i] \in {"connecting", "open"}
  /\ env.closes < MaxCloses
  /\ sockets' = [sockets EXCEPT ![i] = "failed"]
  /\ ws' = [ws EXCEPT !.status = "error"]
  /\ UNCHANGED <<face, ttsPlayer, audios, timers, avatar, loads, started, env>>

\* An onclose handler that reconnects without the delay.
SocketCloseReconnectsAtOnce(i) ==
  /\ \/ sockets[i] = "failed"
     \/ sockets[i] \in {"connecting", "open"} /\ env.closes < MaxCloses
  /\ env' = [env EXCEPT !.closes = @ + 1]
  /\ sockets' = [sockets EXCEPT ![i] = "closed"]
  /\ ws' = [ws EXCEPT !.status = "disconnected"]
  /\ timers' = SetTimeout(timers, "reconnect", 0)
  /\ UNCHANGED <<face, ttsPlayer, audios, avatar, loads, started>>

\* socket.onclose
SocketClose(i) ==
  /\ \/ sockets[i] = "failed"
     \/ sockets[i] \in {"connecting", "open"} /\ env.closes < MaxCloses
  /\ env' = [env EXCEPT !.closes = @ + 1]
  /\ sockets' = [sockets EXCEPT ![i] = "closed"]
  /\ ws' = [ws EXCEPT !.status = "disconnected"]
  /\ timers' = SetTimeout(timers, "reconnect", RECONNECT_MS)
  /\ UNCHANGED <<face, ttsPlayer, audios, avatar, loads, started>>

\* the callback of setTimeout(() => this.connect(), 2000)
ReconnectTimeout(k) ==
  /\ timers[k].kind = "reconnect"
  /\ timers[k].rem = 0
  /\ timers' = RemoveAt(timers, k)
  /\ ws' = connect(ws, sockets).ws
  /\ sockets' = connect(ws, sockets).sockets
  /\ UNCHANGED <<face, ttsPlayer, audios, avatar, loads, started, env>>

\* the callback of setTimeout(() => face.returnToNeutral(), 1500)
NeutralTimeout(k) ==
  /\ timers[k].kind = "neutral"
  /\ timers[k].rem = 0
  /\ timers' = RemoveAt(timers, k)
  /\ face' = returnToNeutral(face)
  /\ UNCHANGED <<ttsPlayer, audios, ws, sockets, avatar, loads, started, env>>

\* the callback of setTimeout(() => this.returnToNeutral(), 500) set by face.update
LipNeutralTimeout(k) ==
  /\ timers[k].kind = "lipNeutral"
  /\ timers[k].rem = 0
  /\ timers' = RemoveAt(timers, k)
  /\ face' = returnToNeutral(face)
  /\ UNCHANGED <<ttsPlayer, audios, ws, sockets, avatar, loads, started, env>>

\* The stopwatch readings after a frame of delta milliseconds.
Stopwatch(e, f, delta) ==
  IF f._blinkTimer - delta <= 0
  THEN [e EXCEPT !.blinkSpan = 0, !.blinkDelta = delta]
  ELSE IF f._blinkState # "idle"
  THEN [e EXCEPT !.blinkSpan = @ + delta,
                 !.blinkDelta = IF @ = delta THEN delta ELSE 0]
  ELSE [e EXCEPT !.blinkSpan = 0, !.blinkDelta = 0]

\* animate(): one render frame, delta = Math.min(clock.getDelta(), 0.05) after
\* delta milliseconds have passed (a callback that is due runs first)
AnimateFrame(delta, rVar, rBlink) ==
  /\ avatar.currentVRM # 0
  /\ delta <= MAX_DELTA_MS
  /\ \A k \in 1..Len(timers) : timers[k].rem >= delta
  /\ avatar' = [avatar EXCEPT !.actions = MixerUpdate(avatar, delta)]
  /\ face' = update(face, delta, rVar, rBlink, avatar.currentAction)
  /\ timers' = LET ts == [k \in 1..Len(timers) |-> [timers[k] EXCEPT !.rem = @ - delta]]
                   tf == IF FinishedCurrent(avatar, delta)
                         THEN SetStopTimer(ts, avatar.currentAction)
                         ELSE ts
               IN IF LipExhausted(face, delta)
                  THEN SetTimeout(tf, "lipNeutral", LIP_NEUTRAL_MS)
                  ELSE tf
  /\ UNCHANGED <<ttsPlayer, audios, ws, sockets, loads, started>>

\* a frame of a behaviour that counts its frames
Animate(delta, rVar, rBlink) ==
  /\ AnimateFrame(delta, rVar, rBlink)
  /\ env' = [Stopwatch(env, face, delta) EXCEPT !.frames = @ + 1]

MinRem(ts) == CHOOSE r \in {ts[k].rem : k \in 1..Len(ts)} :
                \A k \in 1..Len(ts) : r <= ts[k].rem

\* Time passes: dt milliseconds, or up to the next deadline if that is sooner.
\* A callback that is due runs before the clock moves on.
Advance(dt) ==
  /\ timers # <<>>
  /\ \A k \in 1..Len(timers) : timers[k].rem > 0
  /\ LET d == IF dt < MinRem(timers) THEN dt ELSE MinRem(timers)
     IN timers' = [k \in 1..Len(timers) |-> [timers[k] EXCEPT !.rem = @ - d]]
  /\ UNCHANGED <<face, ttsPlayer, audios, ws, sockets, avatar, loads, started, env>>

\* A _handle that routes the action only when the message carries no audio.
HandleActionOnlyWithoutAudio(cmd) ==
  /\ IF cmd.audioB64 # ""
     THEN /\ env.items < MaxItems
          /\ env' = [env EXCEPT !.items = @ + 1]
          /\ Commit(enqueue(Machine, [id |-> env.items + 1, b64ok |-> cmd.audioB64 = "ok",
                                      text |-> cmd.text, emotion |-> cmd.emotion]))
     ELSE /\ face' = IF cmd.emotion # "" THEN setEmotion(face, cmd.emotion) ELSE face
          /\ UNCHANGED <<ttsPlayer, audios, timers, started, env>>
  /\ IF cmd.audioB64 = "" /\ StartsLoad(cmd.action, avatar)
     THEN /\ Len(loads) < MaxLoads
          /\ loads' = Append(loads, [path |-> cmd.action, vrm |-> avatar.currentVRM,
                                     mixer |-> avatar.currentMixer,
                                     seq |-> NextSeq(loads, avatar)])
     ELSE UNCHANGED loads

\* ws._handle(cmd) for a dialogue message (the subtitle element is not modelled)
_handle(cmd) ==
  /\ IF cmd.audioB64 # ""
     THEN /\ env.items < MaxItems
          /\ env' = [env EXCEPT !.items = @ + 1]
          /\ Commit(enqueue(Machine, [id |-> env.items + 1, b64ok |-> cmd.audioB64 = "ok",
                                      text |-> cmd.text, emotion |-> cmd.emotion]))
     ELSE /\ face' = IF cmd.emotion # "" THEN setEmotion(face, cmd.emotion) ELSE face
          /\ UNCHANGED <<ttsPlayer, audios, timers, started, env>>
  /\ IF StartsLoad(cmd.action, avatar)
     THEN /\ Len(loads) < MaxLoads
          /\ loads' = Append(loads, [path |-> cmd.action, vrm |-> avatar.currentVRM,
                                     mixer |-> avatar.currentMixer,
                                     seq |-> NextSeq(loads, avatar)])
     ELSE UNCHANGED loads

\* An onmessage handler that dispatches every payload that parses, whatever its type.
OnMessageAnyType(i, payload) ==
  /\ sockets[i] = "open"
  /\ IF ParseThrows(payload) \/ HandleThrows(payload)
     THEN UNCHANGED <<face, ttsPlayer, audios, timers, loads, started, env>>
     ELSE _handle(payload)
  /\ UNCHANGED <<ws, sockets, avatar>>

\* socket.onmessage: try { this._handle(JSON.parse(ev.data)) } catch (_) { }
OnMessage(i, payload) ==
  /\ sockets[i] = "open"
  /\ IF ParseThrows(payload) \/ HandleThrows(payload) \/ payload.type # "dialogue"
     THEN UNCHANGED <<face, ttsPlayer, audios, timers, loads, started, env>>
     ELSE _handle(payload)
  /\ UNCHANGED <<ws, sockets, avatar>>

\* ws.send(text): the machine after the call (the outbound message itself is
\* not modelled)
send(m) ==
  IF ws.socket # 0 /\ sockets[ws.socket] = "open"
  THEN [clear(m) EXCEPT !.face = setEmotion(@, "thinking")]
  ELSE m

\* the UI's send() with a non-empty trimmed text: ws.send(text)
UserSubmit ==
  /\ avatar.hasInitializedOnce
  /\ IF ws.socket # 0 /\ sockets[ws.socket] = "open"
     THEN Commit(send(Machine))
     ELSE UNCHANGED <<face, ttsPlayer, audios, timers, started>>
  /\ UNCHANGED <<ws, sockets, avatar, loads, env>>

\* the 'playing' event of audio i: playback starts, the play() promise
\* resolves; duration is the audio.duration the element has measured by then
\* (0 stands for NaN or Infinity)
AudioPlaying(i, duration) ==
  /\ audios[i].st = "loading"
  /\ audios[i].promise = "pending"
  /\ ~audios[i].paused
  /\ Commit(onPlaying([Machine EXCEPT !.audios[i].st = "playing",
                                      !.audios[i].promise = "resolved",
                                      !.audios[i].duration = duration], i))
  /\ UNCHANGED <<ws, sockets, avatar, loads, env>>

\* the 'ended' event of audio i
AudioEnded(i) ==
  /\ audios[i].st = "playing"
  /\ ~audios[i].paused
  /\ Commit(onFinished([Machine EXCEPT !.audios[i].st = "ended"], i))
  /\ UNCHANGED <<ws, sockets, avatar, loads, env>>

\* the 'error' event of audio i: the resource fails to load (the pending play()
\* promise is then rejected too) or fails to decode during playback
AudioError(i) ==
  /\ audios[i].st \in {"loading", "playing"}
  /\ ~audios[i].paused
  /\ Commit(onFinished([Machine EXCEPT
                          !.audios[i].st = "failed",
                          !.audios[i].promise = IF @ = "pending" THEN "rejecting" ELSE @], i))
  /\ UNCHANGED <<ws, sockets, avatar, loads, env>>

\* the play() promise of audio i is rejected: after a load error, after pause()
\* (AbortError), or because the browser does not allow playback (NotAllowedError)
PlayRejected(i) ==
  /\ \/ audios[i].promise = "rejecting"
     \/ audios[i].promise = "pending" /\ audios[i].st = "loading"
  /\ Commit(onPlayRejected([Machine EXCEPT
                              !.audios[i].promise = "rejected",
                              !.audios[i].st = IF audios[i].promise = "pending"
                                               THEN "blocked" ELSE @], i))
  /\ UNCHANGED <<ws, sockets, avatar, loads, env>>

\* ------------------------------------------------------------ input sets
Texts == {<<>>, <<"h", "i">>}
MsgEmotions == {"", "happy", "bogus"}
ActionPaths == {"", "dance.fbx", "pose.txt"}
Durations == {1200}

Msg(type, text, emotion, audioB64, action) ==
  [wire |-> "json", type |-> type, text |-> text, emotion |-> emotion,
   audioB64 |-> audioB64, action |-> action]

\* Dialogue messages that carry audio ("bad" is a payload atob rejects)
AudioPayloads ==
  {Msg("dialogue", <<"h", "i">>, "happy", "ok", ""),
   Msg("dialogue", <<>>, "", "ok", "dance.fbx"),
   Msg("dialogue", <<"h", "i">>, "happy", "bad", "")}

\* Dialogue messages that carry no audio
PlainPayloads ==
  {Msg("dialogue", t, e, "", a) : t \in {<<"h", "i">>}, e \in MsgEmotions, a \in ActionPaths}

\* Messages of another type, a payload that does not parse, the payload 'null'
DroppedPayloads ==
  {Msg("pong", <<"h", "i">>, "happy", "ok", "dance.fbx"),
   [Msg("", <<>>, "", "", "") EXCEPT !.wire = "garbage"],
   [Msg("", <<>>, "", "", "") EXCEPT !.wire = "null"]}

Payloads == AudioPayloads \cup PlainPayloads \cup DroppedPayloads

\* ----------------------------------------------------------- specification
Next ==
  \/ ~avatar.hasInitializedOnce /\ AvatarLoaded(0)
  \/ \E i \in 1..Len(sockets) : SocketOpen(i)
  \/ \E i \in 1..Len(sockets), p \in Payloads : OnMessage(i, p)
  \/ UserSubmit
  \/ \E i \in 1..Len(audios), d \in Durations : AudioPlaying(i, d)
  \/ \E i \in 1..Len(audios) : AudioEnded(i)
  \/ \E i \in 1..Len(audios) : AudioError(i)
  \/ \E i \in 1..Len(audios) : PlayRejected(i)
  \/ \E k \in 1..Len(timers) : NeutralTimeout(k)
  \/ \E k \in 1..Len(timers) : LipNeutralTimeout(k)
  \/ env.frames < MaxFrames /\ Animate(MAX_DELTA_MS, 0, 0)
  \/ \E dt \in TimeSteps : Advance(dt)

Spec == Init /\ [][Next]_vars

\* The connection to the dialogue server: the avatar loads (and is replaced),
\* sockets open, fail and close, the reconnect timer runs, messages without
\* audio arrive and the user submits text.
NextConn ==
  \/ AvatarLoaded(0)
  \/ \E i \in 1..Len(sockets) : SocketOpen(i)
  \/ \E i \in 1..Len(sockets) : SocketError(i)
  \/ \E i \in 1..Len(sockets) : SocketClose(i)
  \/ \E k \in 1..Len(timers) : ReconnectTimeout(k)
  \/ \E i \in 1..Len(sockets), p \in PlainPayloads : OnMessage(i, p)
  \/ UserSubmit
  \/ \E dt \in TimeSteps : Advance(dt)

\* Timers run: the clock advances and a due reconnect callback is called.
SpecConn ==
  /\ Init
  /\ [][NextConn]_vars
  /\ WF_vars(\E dt \in TimeSteps : Advance(dt))
  /\ WF_vars(\E k \in 1..Len(timers) : ReconnectTimeout(k))

\* Frame times of the render loop, in ms (60 fps and the cap).
TickDeltas == {16, MAX_DELTA_MS}
\* Math.random() of the lip-sync variation, in percent.
Randoms == {0, 100}

\* Messages that move the expression and the lip layer.
BlendPayloads ==
  {Msg("dialogue", <<"h", "i">>, "happy", "", ""),
   Msg("dialogue", <<"h", "i">>, "sad", "ok", "")}

\* The blend layers at work: expressions are set, items are spoken, and the
\* render loop ticks with varying frame times.
NextBlend ==
  \/ ~avatar.hasInitializedOnce /\ AvatarLoaded(0)
  \/ \E i \in 1..Len(sockets) : SocketOpen(i)
  \/ \E i \in 1..Len(sockets), p \in BlendPayloads : OnMessage(i, p)
  \/ \E i \in 1..Len(audios), d \in Durations : AudioPlaying(i, d)
  \/ \E i \in 1..Len(audios) : AudioEnded(i)
  \/ \E d \in TickDeltas, r \in Randoms : env.frames < MaxTicks /\ Animate(d, r, 0)

SpecBlend == Init /\ [][NextBlend]_vars

\* the blendshape preset setEmotion(key) makes active
Preset(key) == IF EXPR_NAMES(key) # "" THEN EXPR_NAMES(key) ELSE "neutral"

\* Frame times of a run with a steady frame rate, in ms.
SteadyDeltas == {8, 16, MAX_DELTA_MS}
\* Weights a shape has part of the way through a fade.
MidWeights == {15, 5000}

\* A loaded avatar in the middle of a cross-fade from neutral to the emotion
\* key, with the mouth left open by an utterance that was just stopped.
FadingFace(key, wNew, wOld, wLip) ==
  LET f0 == setEmotion(faceInit([vrm |-> 0, emBlink |-> 0, proceduralBody |-> FALSE,
                                 _exprCurrent |-> <<>>, _exprTarget |-> <<>>,
                                 _activeExpr |-> "neutral",
                                 _blinkTimer |-> 3000, _blinkState |-> "idle",
                                 _blinkProg |-> 0, _blinkDur |-> 100,
                                 _phonQueue |-> <<>>, _phonTimer |-> 0,
                                 _phonCurrent |-> <<>>,
                                 _lipCurrent |-> <<>>, _lipTarget |-> <<>>,
                                 _speaking |-> FALSE], 1, 0), key)
  IN [f0 EXCEPT !._exprCurrent = Put(Put(@, "neutral", ONE - wOld), Preset(key), wNew),
                !._lipCurrent = Put(@, "aa", wLip)]

InitSteady ==
  /\ \E wNew \in MidWeights, wOld \in MidWeights :
       face = FadingFace("thinking", wNew, wOld, 4250)
  /\ ttsPlayer = [_queue |-> <<>>, _playing |-> FALSE, _currentAudio |-> 0]
  /\ audios = <<>>
  /\ timers = <<>>
  /\ ws = connect([socket |-> 0, status |-> ""], <<>>).ws
  /\ sockets = connect([socket |-> 0, status |-> ""], <<>>).sockets
  /\ avatar = [currentVRM |-> 1, currentMixer |-> 1, currentAction |-> 0,
               hasInitializedOnce |-> TRUE, actions |-> <<>>]
  /\ loads = <<>>
  /\ started = 0
  /\ \E d \in SteadyDeltas :
       env = [items |-> 0, closes |-> 0, avatars |-> 1, frames |-> 0,
              delta |-> d, blinkSpan |-> 0, blinkDelta |-> 0]

\* a frame of a run with a steady frame rate
SteadyFrame ==
  /\ AnimateFrame(env.delta, 0, 0)
  /\ env' = Stopwatch(env, face, env.delta)

\* The render loop alone, at a steady frame rate, with nothing else happening;
\* requestAnimationFrame keeps calling animate.
SpecSteady == InitSteady /\ [][SteadyFrame]_vars /\ WF_vars(SteadyFrame)

\* "Hello there!"
HelloThere == <<"H", "e", "l", "l", "o", " ", "t", "h", "e", "r", "e", "!">>

\* a non-ASCII decorative character (an emoji)
Emoji == "emoji"

\* Texts of spoken items: empty, a word, a word without vowels, separators
\* only, words joined by short and long pauses, "Hello there!", and texts with
\* emoji: alone, and as a run after a word.
ParseTexts ==
  {<<>>, <<"h", "i">>, <<"h", "m", "m">>, <<".", " ", "ellipsis">>, <<"-">>,
   <<"O", "k", "-", "y", "a">>, <<" ", "n", "o", ",", " ", "u", "p">>, HelloThere,
   <<Emoji>>, <<"h", "i", " ", Emoji, Emoji>>}

\* audio.duration when playback starts, in ms; 0: not known (NaN or Infinity)
ParseDurations == {0, 700, 1200}

ParsePayloads == {Msg("dialogue", t, "", "ok", "") : t \in ParseTexts}

\* Items with varied texts are enqueued, start playing (which builds the
\* lip-sync timeline from the text) and end.
NextParse ==
  \/ ~avatar.hasInitializedOnce /\ AvatarLoaded(0)
  \/ \E i \in 1..Len(sockets) : SocketOpen(i)
  \/ \E i \in 1..Len(sockets), p \in ParsePayloads : OnMessage(i, p)
  \/ \E i \in 1..Len(audios), d \in ParseDurations : AudioPlaying(i, d)
  \/ \E i \in 1..Len(audios) : AudioEnded(i)

SpecParse == Init /\ [][NextParse]_vars

\* Frame times of the render loop while the eyes blink, in ms.
BlinkDeltas == {16, 33, MAX_DELTA_MS}

\* a frame of the render loop, not counted
BlinkFrame(delta) ==
  /\ AnimateFrame(delta, 0, 0)
  /\ env' = Stopwatch(env, face, delta)

\* The render loop with varying frame times while avatars are loaded and
\* replaced.
NextBlink ==
  \/ AvatarLoaded(0)
  \/ \E d \in BlinkDeltas : BlinkFrame(d)

SpecBlink == Init /\ [][NextBlink]_vars

\* ---------------------------------------------------------------------------
\* The action player: clips requested by the server or dropped on the window
\* ---------------------------------------------------------------------------

\* drop of a .fbx or .vrma file: loadFBX(url) / loadVRMA(url) up to the first
\* await; the mixer is read when the clip has arrived (mixer 0: none captured)
DropFile(path) ==
  /\ FileType(path) \in {"fbx", "vrma"}
  /\ avatar.currentMixer # 0 /\ avatar.currentVRM # 0
  /\ Len(loads) < MaxLoads
  /\ loads' = Append(loads, [path |-> path, vrm |-> avatar.currentVRM, mixer |-> 0,
                             seq |-> NextSeq(loads, avatar)])
  /\ UNCHANGED <<face, ttsPlayer, audios, timers, ws, sockets, avatar, started, env>>

\* the mixer the arrived clip is bound to: the one handleAction was called
\* with, or the global currentMixer for a dropped file
LoadMixer(ld, av) == IF ld.mixer # 0 THEN ld.mixer ELSE av.currentMixer

\* the clip of load k has arrived: the .then callback of handleAction, the
\* rest of loadFBX / loadVRMA
ActionLoaded(k, duration) ==
  /\ k \in 1..Len(loads)
  /\ avatar' = StartAction(avatar, LoadMixer(loads[k], avatar), duration, loads[k].seq)
  /\ loads' = RemoveAt(loads, k)
  /\ UNCHANGED <<face, ttsPlayer, audios, timers, ws, sockets, started, env>>

\* A failed load that sends the action player back to idle.
ActionLoadFailedReturnsToIdle(k) ==
  /\ k \in 1..Len(loads)
  /\ loads' = RemoveAt(loads, k)
  /\ avatar' = [avatar EXCEPT !.currentAction = 0]
  /\ UNCHANGED <<face, ttsPlayer, audios, timers, ws, sockets, started, env>>

\* the load of clip k failed: handleAction returns null, loadFBX / loadVRMA
\* log the error
ActionLoadFailed(k) ==
  /\ k \in 1..Len(loads)
  /\ loads' = RemoveAt(loads, k)
  /\ UNCHANGED <<face, ttsPlayer, audios, timers, ws, sockets, avatar, started, env>>

\* A timeout callback that stops the faded action but keeps it as the current one.
ActionStopTimeoutKeepsCurrent(k) ==
  /\ k \in 1..Len(timers)
  /\ timers[k].kind = "actionStop"
  /\ timers[k].rem = 0
  /\ timers' = RemoveAt(timers, k)
  /\ avatar' = IF avatar.currentAction = timers[k].action
               THEN [avatar EXCEPT !.actions[timers[k].action] = stop(@)]
               ELSE avatar
  /\ UNCHANGED <<face, ttsPlayer, audios, ws, sockets, loads, started, env>>

\* A timeout callback that stops and clears whatever action is current then.
ActionStopTimeoutUnguarded(k) ==
  /\ k \in 1..Len(timers)
  /\ timers[k].kind = "actionStop"
  /\ timers[k].rem = 0
  /\ timers' = RemoveAt(timers, k)
  /\ avatar' = IF avatar.currentAction # 0
               THEN [avatar EXCEPT !.actions[avatar.currentAction] = stop(@),
                                   !.currentAction = 0]
               ELSE avatar
  /\ UNCHANGED <<face, ttsPlayer, audios, ws, sockets, loads, started, env>>

\* the 800 ms callback of the 'finished' listener
ActionStopTimeout(k) ==
  /\ k \in 1..Len(timers)
  /\ timers[k].kind = "actionStop"
  /\ timers[k].rem = 0
  /\ timers' = RemoveAt(timers, k)
  /\ avatar' = IF avatar.currentAction = timers[k].action
               THEN [avatar EXCEPT !.actions[timers[k].action] = stop(@),
                                   !.currentAction = 0]
               ELSE avatar
  /\ UNCHANGED <<face, ttsPlayer, audios, ws, sockets, loads, started, env>>

\* Number of actions requested in one behaviour.
MaxActions == 2

\* the length of an arriving clip, in ms
ClipDurations == {600}

\* dialogue messages that only ask for an action, of a supported and of an
\* unsupported file type
ActionPayloads ==
  {Msg("dialogue", <<>>, "", "", "dance.fbx"), Msg("dialogue", <<>>, "", "", "pose.txt")}

\* Actions are requested by the server and by dropped files while the avatar
\* is loaded and replaced and the render loop runs at its slowest frame time.
NextAction ==
  \/ AvatarLoaded(0)
  \/ \E i \in 1..Len(sockets) : SocketOpen(i)
  \/ /\ NextSeq(loads, avatar) <= MaxActions
     /\ \E i \in 1..Len(sockets), p \in ActionPayloads : OnMessage(i, p)
  \/ /\ NextSeq(loads, avatar) <= MaxActions
     /\ DropFile("Wave.VRMA")
  \/ \E k \in 1..Len(loads), d \in ClipDurations : ActionLoaded(k, d)
  \/ \E k \in 1..Len(loads) : ActionLoadFailed(k)
  \/ \E k \in 1..Len(timers) : ActionStopTimeout(k)
  \/ AnimateFrame(MAX_DELTA_MS, 0, 0) /\ UNCHANGED env

SpecAction == Init /\ [][NextAction]_vars

\* Number of actions triggered in a behaviour in which the avatar is replaced.
MaxSwapActions == 1

\* the length of the dropped clip, in ms
SwapClipDurations == {100}

\* What the browser's event loop runs on its own: the arrival of a pending
\* clip, a due timer callback, the next frame.
EventLoop ==
  \/ \E k \in 1..Len(loads), d \in SwapClipDurations : ActionLoaded(k, d)
  \/ \E k \in 1..Len(timers) : ActionStopTimeout(k)
  \/ AnimateFrame(MAX_DELTA_MS, 0, 0) /\ UNCHANGED env

\* A dropped clip is loaded and played while the avatar may be replaced at any
\* moment; the event loop keeps running.
NextSwap ==
  \/ AvatarLoaded(0)
  \/ /\ NextSeq(loads, avatar) <= MaxSwapActions
     /\ DropFile("Wave.VRMA")
  \/ EventLoop

SpecSwap == Init /\ [][NextSwap]_vars /\ WF_vars(EventLoop)

\* ---------------------------------------------------------------------------
\* User input while a response is in flight and the connection comes and goes
\* ---------------------------------------------------------------------------

\* a spoken response
SubmitPayloads == {Msg("dialogue", <<"h", "i">>, "happy", "ok", "")}

\* Responses arrive and are spoken, the connection is closed by the server or
\* the network, and the user submits text at any moment.
NextSubmit ==
  \/ ~avatar.hasInitializedOnce /\ AvatarLoaded(0)
  \/ \E i \in 1..Len(sockets) : SocketOpen(i)
  \/ \E i \in 1..Len(sockets) : SocketClose(i)
  \/ \E i \in 1..Len(sockets), p \in SubmitPayloads : OnMessage(i, p)
  \/ UserSubmit
  \/ \E i \in 1..Len(audios), d \in Durations : AudioPlaying(i, d)
  \/ \E i \in 1..Len(audios) : AudioEnded(i)
  \/ \E i \in 1..Len(audios) : PlayRejected(i)
  \/ env.frames < MaxFrames /\ Animate(MAX_DELTA_MS, 0, 0)

SpecSubmit == Init /\ [][NextSubmit]_vars

\* ---------------------------------------------------------------------------
\* One utterance spoken to the end of its timeline at a steady frame rate
\* ---------------------------------------------------------------------------

\* Frame times of the render loop while an utterance is spoken, in ms.
SpeakDeltas == {16, 33, MAX_DELTA_MS}

\* Texts of the utterance: one separator, a word, "Hello there!".
SpeakTexts == {<<"-">>, <<"h", "i">>, HelloThere}

\* audio.duration of the utterance, in ms
SpeakDurations == {700, 1200}

SpeakPayloads == {Msg("dialogue", t, "", "ok", "") : t \in SpeakTexts}

InitSpeak ==
  /\ face = [vrm |-> 0, emBlink |-> 0, proceduralBody |-> FALSE,
             _exprCurrent |-> <<>>, _exprTarget |-> <<>>, _activeExpr |-> "neutral",
             _blinkTimer |-> 3000, _blinkState |-> "idle", _blinkProg |-> 0,
             _blinkDur |-> 100,
             _phonQueue |-> <<>>, _phonTimer |-> 0, _phonCurrent |-> <<>>,
             _lipCurrent |-> <<>>, _lipTarget |-> <<>>, _speaking |-> FALSE]
  /\ ttsPlayer = [_queue |-> <<>>, _playing |-> FALSE, _currentAudio |-> 0]
  /\ audios = <<>>
  /\ timers = <<>>
  /\ ws = [socket |-> 0, status |-> ""]
  /\ sockets = <<>>
  /\ avatar = [currentVRM |-> 0, currentMixer |-> 0, currentAction |-> 0,
               hasInitializedOnce |-> FALSE, actions |-> <<>>]
  /\ loads = <<>>
  /\ started = 0
  /\ \E d \in SpeakDeltas :
       env = [items |-> 0, closes |-> 0, avatars |-> 0, frames |-> 0,
              delta |-> d, blinkSpan |-> 0, blinkDelta |-> 0]

\* a frame rendered while the utterance is spoken; the frames are counted from
\* startSpeaking on (the frames before it do not touch the timeline)
SpeakFrame ==
  /\ face._speaking
  /\ Animate(env.delta, 0, 0)

\* One item arrives, starts playing and is spoken frame by frame until the
\* lip layer stops itself; its audio neither ends nor fails meanwhile.
NextSpeak ==
  \/ ~avatar.hasInitializedOnce /\ AvatarLoaded(0)
  \/ \E i \in 1..Len(sockets) : SocketOpen(i)
  \/ env.items = 0 /\ \E i \in 1..Len(sockets), p \in SpeakPayloads : OnMessage(i, p)
  \/ \E i \in 1..Len(audios), d \in SpeakDurations : AudioPlaying(i, d)
  \/ SpeakFrame

SpecSpeak == InitSpeak /\ [][NextSpeak]_vars

\* ---------------------------------------------------------------------------
\* The lip layer through whole utterances, user submits and avatar swaps
\* ---------------------------------------------------------------------------

\* Number of render frames in one behaviour of SpecLip.
MaxLipFrames == 8

\* a short utterance of two syllables: "ya"
LipPayloads == {Msg("dialogue", <<"y", "a">>, "", "ok", "")}

\* audio.duration of the utterance, in ms
LipDurations == {180}

\* Utterances are spoken to the end of their timeline or cut off by the end of
\* the audio, by a user submit or by an avatar swap.
NextLip ==
  \/ AvatarLoaded(0)
  \/ \E i \in 1..Len(sockets) : SocketOpen(i)
  \/ \E i \in 1..Len(sockets), p \in LipPayloads : OnMessage(i, p)
  \/ UserSubmit
  \/ \E i \in 1..Len(audios), d \in LipDurations : AudioPlaying(i, d)
  \/ \E i \in 1..Len(audios) : AudioEnded(i)
  \/ \E r \in Randoms : env.frames < MaxLipFrames /\ Animate(MAX_DELTA_MS, r, 0)

SpecLip == Init /\ [][NextLip]_vars

\* ---------------------------------------------------------------------------
\* The audio queue when every started item gets its callbacks
\* ---------------------------------------------------------------------------

\* spoken responses whose audio decodes and whose audio does not
QueuePayloads ==
  {Msg("dialogue", <<>>, "", "ok", ""), Msg("dialogue", <<>>, "", "bad", "")}

\* What the browser delivers to a started item: playing, ended, error, the
\* rejection of play().
AudioCallbacks ==
  \/ \E i \in 1..Len(audios), d \in Durations : AudioPlaying(i, d)
  \/ \E i \in 1..Len(audios) : AudioEnded(i)
  \/ \E i \in 1..Len(audios) : AudioError(i)
  \/ \E i \in 1..Len(audios) : PlayRejected(i)

\* Items are enqueued and the user submits text at any moment; a started item
\* that still can get a callback eventually gets one.
NextQueue ==
  \/ ~avatar.hasInitializedOnce /\ AvatarLoaded(0)
  \/ \E i \in 1..Len(sockets) : SocketOpen(i)
  \/ \E i \in 1..Len(sockets), p \in QueuePayloads : OnMessage(i, p)
  \/ UserSubmit
  \/ AudioCallbacks

SpecQueue == Init /\ [][NextQueue]_vars /\ WF_vars(AudioCallbacks)

\* ---------------------------------------------------------------------------
\* Emotion tags: the server sends any string as the emotion of a message
\* ---------------------------------------------------------------------------

\* the tags of the fixed set and some that are not in it
EmotionTags == EXPR_KEYS \cup {"bogus", "constructor", "toString"}

EmotionPayloads == {Msg("dialogue", <<>>, e, "", "") : e \in EmotionTags}

\* Messages that only carry an emotion arrive while the avatar is loaded and
\* replaced and frames run.
NextEmotion ==
  \/ AvatarLoaded(0)
  \/ \E i \in 1..Len(sockets) : SocketOpen(i)
  \/ \E i \in 1..Len(sockets), p \in EmotionPayloads : OnMessage(i, p)
  \/ env.frames < MaxFrames /\ Animate(MAX_DELTA_MS, 0, 0)

SpecEmotion == Init /\ [][NextEmotion]_vars

\* ------------------------------------------------------------------ claims
\* An item whose playback was started and is not finished: none of its ended,
\* error or rejection callbacks has fired and clear() has not paused it.
Active(a) == a.st \in {"loading", "playing"} /\ ~a.paused

ActiveAudios == {i \in 1..Len(audios) : Active(audios[i])}

\* C1: at most one audio item is started and not yet finished at any time, under
\* every interleaving of enqueue, clear and the playback callbacks.
C1_AtMostOneActive == Cardinality(ActiveAudios) <= 1

LipTargetsZero(f) == \A n \in LIP_SHAPES : Get(f._lipTarget, n, 0) = 0

ExpressionUnchanged ==
  /\ face'._activeExpr = face._activeExpr
  /\ face'._exprTarget = face._exprTarget

\* C2: enqueue never changes the active expression or an expression target; an
\* item's emotion is applied by its own 'playing' callback, which starts the
\* lip-sync timeline of the item's text scaled to the measured duration; no
\* other callback of the queue touches the expression or starts the timeline.
C2_EmotionAtOwnPlaying ==
  [][/\ \A i \in 1..Len(sockets), p \in AudioPayloads :
          OnMessage(i, p) => ExpressionUnchanged /\ (face'._speaking => face._speaking)
     /\ \A i \in 1..Len(audios), d \in Durations :
          AudioPlaying(i, d) =>
            /\ face'._speaking
            /\ face'._phonQueue = parse(audios[i].text, d)
            /\ face'._phonCurrent = <<>>
            /\ face'._activeExpr = IF audios[i].emotion # "" THEN Preset(audios[i].emotion)
                                   ELSE face._activeExpr
            /\ face'._exprTarget = IF audios[i].emotion # ""
                                   THEN setEmotion(face, audios[i].emotion)._exprTarget
                                   ELSE face._exprTarget
     /\ \A i \in 1..Len(audios) :
          AudioEnded(i) \/ AudioError(i) \/ PlayRejected(i) =>
            ExpressionUnchanged /\ ~face'._speaking
    ]_vars

\* C2 witness: an item that waited in the queue is playing, its own emotion is
\* the active expression and its timeline is the one being spoken.
C2_Witness ==
  \E i \in 1..Len(audios) :
    /\ audios[i].id >= 2
    /\ audios[i].st = "playing"
    /\ audios[i].emotion = "happy"
    /\ audios[i].duration > 0
    /\ face._activeExpr = "happy"
    /\ face._speaking
    /\ face._phonQueue = parse(audios[i].text, audios[i].duration)
    /\ ttsPlayer._queue # <<>>

QueueIds == {ttsPlayer._queue[k].id : k \in 1..Len(ttsPlayer._queue)}

\* C3: items are started in the order they were enqueued and none is started
\* twice: the waiting items are in enqueue order, each was enqueued after every
\* item already started, and no started item is waiting again.
C3_Fifo ==
  /\ \A k \in 1..(Len(ttsPlayer._queue) - 1) :
       ttsPlayer._queue[k].id < ttsPlayer._queue[k + 1].id
  /\ \A q \in QueueIds : q > started
  /\ \A i \in 1..Len(audios) : audios[i].id <= started
  /\ \A i, j \in 1..Len(audios) : i < j => audios[i].id < audios[j].id

\* C3 witness: the second item has been started after the first while the third
\* still waits.
C3_Witness ==
  /\ started = 2
  /\ QueueIds = {3}
  /\ \E i \in 1..Len(audios) : audios[i].id = 2 /\ Active(audios[i])

\* C4: after clear() the queue is empty, every lip target is 0 and nothing is
\* marked as playing, and no later callback of an item clear() aborted causes
\* startSpeaking, setEmotion, stopSpeaking or the start of another item.
C4_ClearSilencesCallbacks ==
  [][/\ avatar.hasInitializedOnce =>
          LET m == clear(Machine)
          IN m.tts._queue = <<>> /\ ~m.tts._playing /\ LipTargetsZero(m.face)
     /\ \A i \in 1..Len(audios) :
          audios[i].paused /\ (PlayRejected(i) \/ AudioPlaying(i, 1200)
                               \/ AudioEnded(i) \/ AudioError(i)) =>
            /\ face' = face
            /\ ttsPlayer' = ttsPlayer
            /\ timers' = timers
            /\ started' = started
    ]_vars

\* C5: a playback failure (error event, play() rejection) is handled like a
\* natural completion: the lip layer is stopped, the failed item is not started
\* again and the queue advances by exactly one item for the failed item.
C5_FailureAdvancesOnce ==
  [][\A i \in 1..Len(audios) :
       /\ AudioError(i) \/ PlayRejected(i) =>
            /\ ~face'._speaking
            /\ LipTargetsZero(face')
            /\ \A j \in 1..Len(audios') : Active(audios'[j]) => audios'[j].id # audios[i].id
            /\ audios[i].id \notin {ttsPlayer'._queue[k].id : k \in 1..Len(ttsPlayer'._queue)}
       /\ audios[i].st = "failed" /\ PlayRejected(i) =>
            /\ ttsPlayer'._queue = ttsPlayer._queue
            /\ started' = started
    ]_vars

\* C6: when an item completes and the queue is empty the lip layer is stopped
\* at once and the return to neutral is only scheduled, 1500 ms ahead; an
\* enqueue cancels every return to neutral that was pending from a completion.
C6_GraceDelay ==
  [][/\ \A i \in 1..Len(audios) :
          AudioEnded(i) /\ ttsPlayer._queue = <<>> =>
            /\ ~face'._speaking
            /\ LipTargetsZero(face')
            /\ ExpressionUnchanged
            /\ \E k \in 1..Len(timers') :
                 timers'[k] = [kind |-> "neutral", rem |-> NEUTRAL_GRACE_MS, held |-> TRUE]
     /\ \A i \in 1..Len(sockets), p \in AudioPayloads :
          OnMessage(i, p) =>
            \A k \in 1..Len(timers') :
              timers'[k].kind = "neutral" =>
                timers'[k].held /\ timers'[k].rem = NEUTRAL_GRACE_MS
    ]_vars

ItemOf(p) ==
  [id |-> env.items + 1, b64ok |-> p.audioB64 = "ok", text |-> p.text, emotion |-> p.emotion]

\* C8: a dialogue message with audio has its text, emotion and audio enqueued
\* and its emotion is not applied at dispatch; one without audio but with an
\* emotion has the emotion applied at once; an action is handed to the action
\* loader in both cases.
C8_Dispatch ==
  [][\A i \in 1..Len(sockets), p \in AudioPayloads \cup PlainPayloads :
       OnMessage(i, p) =>
         /\ p.audioB64 # "" =>
              /\ ExpressionUnchanged
              /\ ttsPlayer._playing => ttsPlayer'._queue = Append(ttsPlayer._queue, ItemOf(p))
              /\ ~ttsPlayer._playing /\ p.audioB64 = "ok" =>
                   \E j \in 1..Len(audios') :
                     /\ audios'[j].id = ItemOf(p).id
                     /\ audios'[j].text = p.text
                     /\ audios'[j].emotion = p.emotion
                     /\ audios'[j].st = "loading"
         /\ p.audioB64 = "" =>
              /\ ttsPlayer' = ttsPlayer /\ audios' = audios
              /\ p.emotion # "" =>
                   face'._activeExpr = Preset(p.emotion) /\ face' = setEmotion(face, p.emotion)
              /\ p.emotion = "" => face' = face
         /\ p.action = "dance.fbx" =>
              loads' = Append(loads, [path |-> p.action, vrm |-> avatar.currentVRM,
                                      mixer |-> avatar.currentMixer,
                                     seq |-> NextSeq(loads, avatar)])
         /\ p.action # "dance.fbx" => loads' = loads
    ]_vars

\* C8 witness: a message carrying audio and an action has been dispatched: its
\* item is loading while its action clip is loading too, and the item's
\* emotion is not the active expression.
C8_Witness ==
  /\ \E i \in 1..Len(audios) : audios[i].text = <<>> /\ audios[i].st = "loading"
  /\ Len(loads) = 1
  /\ ttsPlayer._queue # <<>>
  /\ ttsPlayer._queue[1].emotion = "happy"
  /\ face._activeExpr = "neutral"

\* C9: a payload that does not parse, or whose type is not "dialogue", changes
\* nothing: queue, expression, lip state, action loads and connection status
\* stay as they were.
C9_DropMalformed ==
  [][\A i \in 1..Len(sockets), p \in DroppedPayloads :
       OnMessage(i, p) => UNCHANGED vars
    ]_vars

\* C9 witness: a socket is open while an item plays, another waits, an action
\* clip is loading and a non-neutral expression is active: the state a dropped
\* payload must leave alone.
C9_Witness ==
  /\ \E i \in 1..Len(sockets) : sockets[i] = "open"
  /\ ttsPlayer._queue # <<>>
  /\ face._speaking
  /\ face._activeExpr = "happy"
  /\ loads # <<>>
  /\ ws.status = "connected"

\* C10: every close, with or without a preceding error event, sets the status
\* to disconnected and schedules one reconnect 2000 ms ahead without connecting
\* in the same step; a reconnect happens only when such a timer has run out;
\* and every close is eventually followed by a new connection attempt.
C10_Reconnect ==
  /\ [][/\ \A i \in 1..Len(sockets) :
             SocketClose(i) =>
               /\ ws'.status = "disconnected"
               /\ Len(sockets') = Len(sockets)
               /\ Len(timers') = Len(timers) + 1
               /\ timers'[Len(timers')] =
                    [kind |-> "reconnect", rem |-> RECONNECT_MS, held |-> FALSE]
        /\ Len(sockets) >= 1 /\ Len(sockets') > Len(sockets) =>
             /\ sockets[Len(sockets)] = "closed"
             /\ \E k \in 1..Len(timers) :
                  /\ timers[k].kind = "reconnect"
                  /\ timers[k].rem = 0
                  /\ timers' = RemoveAt(timers, k)
             /\ sockets'[Len(sockets')] = "connecting"
             /\ ws'.status = "connecting"
        /\ \A k \in 1..Len(timers) :
             timers[k].kind = "reconnect" /\ timers[k].rem > 0 =>
               Len(sockets') = Len(sockets)
       ]_vars
  /\ \A n \in 1..(MaxCloses + 1) :
       (Len(sockets) = n /\ sockets[n] = "closed") ~> (Len(sockets) = n + 1)

\* C10 witness: the connection was closed twice, once after an error event, and
\* a third connection attempt has been made.
C10_Witness ==
  /\ Len(sockets) = 3
  /\ sockets[1] = "closed"
  /\ sockets[2] = "closed"
  /\ sockets[3] = "connecting"
  /\ ws.status = "connecting"
  /\ env.closes = MaxCloses

\* C11: once an avatar is loaded, after any sequence of setEmotion calls and
\* avatar loads exactly one expression shape has target 1, it is the active
\* expression, and every other expression shape has target 0.
C11_OneActiveExpression ==
  avatar.hasInitializedOnce =>
    /\ face._activeExpr \in DOMAIN face._exprTarget
    /\ \A n \in DOMAIN face._exprTarget :
         face._exprTarget[n] = IF n = face._activeExpr THEN ONE ELSE 0

\* C12: after face.init (first load or hot swap) every expression and lip
\* current weight and target is 0 except neutral's target 1, the active
\* expression is neutral, the blink state is idle with progress 0, and the lip
\* layer is not speaking with an empty phoneme queue.
C12_InitResetsFace ==
  [][AvatarLoaded(0) =>
       /\ \A n \in AllNames :
            /\ face'._exprCurrent[n] = 0
            /\ face'._exprTarget[n] = IF n = "neutral" THEN ONE ELSE 0
       /\ \A n \in LIP_SHAPES : face'._lipCurrent[n] = 0 /\ face'._lipTarget[n] = 0
       /\ face'._activeExpr = "neutral"
       /\ face'._blinkState = "idle"
       /\ face'._blinkProg = 0
       /\ ~face'._speaking
       /\ face'._phonQueue = <<>>
    ]_vars

\* new lies in [0,1] and between old and tgt, both included
Between(old, new, tgt) ==
  /\ 0 <= new /\ new <= ONE
  /\ old <= tgt => old <= new /\ new <= tgt
  /\ old >= tgt => tgt <= new /\ new <= old

\* C13: in every frame (0 < delta <= 50 ms) every expression and lip current
\* weight stays in [0,1] and ends between its old value and the target the
\* frame used, so it is never farther from the target than before.
C13_NoOvershoot ==
  [][env'.frames # env.frames =>
       /\ \A n \in AllNames :
            Between(face._exprCurrent[n], face'._exprCurrent[n], face'._exprTarget[n])
       /\ \A n \in LIP_SHAPES :
            Between(face._lipCurrent[n], face'._lipCurrent[n], face'._lipTarget[n])
    ]_vars

\* C13 witness: after some frames an expression is fading in while the previous
\* one fades out and a lip shape is part of the way to its target.
C13_Witness ==
  /\ env.frames >= 2
  /\ face._exprTarget["sad"] = ONE
  /\ face._exprCurrent["sad"] > 0 /\ face._exprCurrent["sad"] < ONE
  /\ face._exprCurrent["neutral"] > 0 /\ face._exprCurrent["neutral"] < ONE
  /\ face._exprTarget["neutral"] = 0
  /\ \E n \in LIP_SHAPES :
       face._lipCurrent[n] > 0 /\ face._lipCurrent[n] < face._lipTarget[n]

\* every expression and lip current weight is within 0.001 of its target
Converged ==
  /\ \A n \in AllNames : Abs(face._exprCurrent[n] - face._exprTarget[n]) <= SNAP
  /\ \A n \in LIP_SHAPES : Abs(face._lipCurrent[n] - face._lipTarget[n]) <= SNAP

\* C14: with fixed targets and repeated frames of a fixed positive delta every
\* expression and lip current weight comes within 0.001 of its target after
\* finitely many frames and stays there.
C14_Converges == <>[]Converged

\* C14 witness: a cross-fade that started part of the way has arrived: the new
\* expression is at weight 1, neutral at 0 and the mouth is closed, at the
\* slowest frame time.
C14_Witness ==
  /\ Converged
  /\ env.delta = 8
  /\ face._activeExpr = "relaxed"
  /\ face._exprCurrent["relaxed"] = ONE
  /\ face._exprCurrent["neutral"] = 0
  /\ face._lipCurrent["aa"] <= SNAP
  /\ face._blinkTimer < 2000

\* C15: the blink state changes only along idle -> closing -> opening -> idle,
\* and a blink in progress is never restarted: while it is closing its
\* progress only grows, and closing is not entered from opening.
C15_BlinkOrder ==
  [][/\ face._blinkState = "idle" => face'._blinkState \in {"idle", "closing"}
     /\ face._blinkState = "closing" =>
          /\ face'._blinkState \in {"closing", "opening"}
          /\ face'._blinkProg >= face._blinkProg
     /\ face._blinkState = "opening" => face'._blinkState \in {"opening", "idle"}
    ]_vars

\* C15 witness: a blink is in its opening phase, half-way open.
C15_Witness ==
  /\ face._blinkState = "opening"
  /\ face._blinkProg > PROG_ONE
  /\ face.emBlink > 0 /\ face.emBlink < ONE

DurationsSumTo(q, D) ==
  IF q = <<>> THEN D = 0
  ELSE /\ \A k \in 1..Len(q) : q[k].den = q[1].den
       /\ TotalNum(q) = D * q[1].den

\* C17: for every text T and every finite target duration D > 0 the durations
\* of the events of parse(T, D), as startSpeaking stores them when an item
\* starts playing, sum to D.
C17_ScaledSum ==
  [][\A i \in 1..Len(audios), d \in ParseDurations :
       d > 0 /\ AudioPlaying(i, d) => DurationsSumTo(face'._phonQueue, d)
    ]_vars

\* C18: without a target duration the timeline an item gets depends on its text
\* only, every event has a strictly positive duration and a weight in [0,1],
\* and building it changes no state but the lip-sync fields startSpeaking sets.
C18_ParsePure ==
  [][\A i \in 1..Len(audios) :
       AudioPlaying(i, 0) =>
         /\ face'._phonQueue = parse(audios[i].text, 0)
         /\ parse(<<"h", "i">>, 0) =
              <<Ev("ih", 50, 120), Ev(NoShape, 10, 30), Ev(NoShape, 0, 60)>>
         /\ \A k \in 1..Len(face'._phonQueue) :
              /\ face'._phonQueue[k].num > 0 /\ face'._phonQueue[k].den = 1
              /\ face'._phonQueue[k].weight >= 0 /\ face'._phonQueue[k].weight <= 100
         /\ face' = [face EXCEPT !._phonQueue = face'._phonQueue,
                                 !._phonTimer = 0,
                                 !._phonCurrent = <<>>,
                                 !._speaking = TRUE,
                                 !._lipTarget = ClearLipTargets(@)]
         /\ UNCHANGED <<ttsPlayer, timers, started, loads, avatar, ws, sockets, env>>
    ]_vars

\* C18 witness: two items with the same text were started with no known
\* duration; the second one's timeline is being spoken and is the unscaled
\* timeline of "Hello there!".
C18_Witness ==
  /\ face._speaking
  /\ started = 2
  /\ \E i \in 1..Len(audios) :
       /\ audios[i].id = 2 /\ audios[i].st = "playing" /\ audios[i].duration = 0
       /\ audios[i].text = HelloThere
  /\ Len(face._phonQueue) = 12
  /\ \A k \in 1..Len(face._phonQueue) : face._phonQueue[k].den = 1

\* C19: for every text of at least one character the timeline has at least one
\* event and ends with a silence (shape null); for "Hello there!" with a
\* measured duration of 1.2 s the scaled durations sum to within 1% of 1.2 s.
C19_TrailingSilence ==
  [][\A i \in 1..Len(audios), d \in ParseDurations :
       AudioPlaying(i, d) /\ audios[i].text # <<>> =>
         LET q == face'._phonQueue
         IN /\ Len(q) > 0
            /\ q[Len(q)].shape = NoShape
            /\ audios[i].text = HelloThere /\ d = 1200 =>
                 /\ \A k \in 1..Len(q) : q[k].den = q[1].den
                 /\ Abs(TotalNum(q) - d * q[1].den) * 100 <= d * q[1].den
    ]_vars

\* C19 witness: "Hello there!" is being spoken with a measured duration of
\* 1.2 s: twelve events, the last one the long pause of the "!".
C19_Witness ==
  /\ face._speaking
  /\ \E i \in 1..Len(audios) :
       /\ audios[i].st = "playing" /\ audios[i].duration = 1200
       /\ audios[i].text = HelloThere
  /\ Len(face._phonQueue) = 12
  /\ face._phonQueue[12].shape = NoShape
  /\ face._phonQueue[12].num = 300 * 1200
  /\ DurationsSumTo(face._phonQueue, 1200)

\* action k is playing: running on the mixer the render loop updates
Playing(av, k) ==
  /\ k # 0
  /\ av.actions[k].st = "running"
  /\ av.actions[k].enabled
  /\ av.actions[k].mixer = av.currentMixer

\* the weight of every action in a fade on the updated mixer follows the
\* fade's ramp and has arrived when the fade's duration has passed
WeightsRamp ==
  \A k \in 1..Len(avatar.actions) :
    LET a == avatar.actions[k]
    IN a.mixer = avatar.currentMixer /\ a.st # "stopped" =>
         /\ a.fade = "in" /\ a.fadeT > 0 =>
              /\ a.w = (IF a.fadeT >= a.fadeDur THEN ONE ELSE (a.fadeT * ONE) \div a.fadeDur)
              /\ a.fadeT >= a.fadeDur => a.w = ONE
         /\ a.fade = "out" /\ a.fadeT > 0 =>
              /\ a.w = ONE - (IF a.fadeT >= a.fadeDur THEN ONE ELSE (a.fadeT * ONE) \div a.fadeDur)
              /\ a.fadeT >= a.fadeDur => a.w = 0
         /\ ~a.enabled => a.w = 0

\* C20: when action B finishes loading while action A is current and playing,
\* B starts playing at once (from the start of its clip, on the mixer the
\* render loop updates) and becomes the current action, A is no longer
\* current, A fades out and B fades in over the 0.5 s crossfade window, and
\* the weights follow these ramps: A's is 0 and B's is 1 once 0.5 s of frames
\* have passed.
C20_Crossfade ==
  /\ [][\A k \in 1..Len(loads), d \in ClipDurations :
          ActionLoaded(k, d) /\ Playing(avatar, avatar.currentAction) =>
            LET A == avatar.currentAction
                B == avatar'.currentAction
            IN /\ B = Len(avatar'.actions)
               /\ B # A
               /\ Playing(avatar', B)
               /\ avatar'.actions[B].time = 0
               /\ avatar'.actions[B].fade = "in"
               /\ avatar'.actions[B].fadeDur = CROSSFADE_MS
               /\ avatar'.actions[A].fade = "out"
               /\ avatar'.actions[A].fadeDur = CROSSFADE_MS
       ]_vars
  /\ []WeightsRamp

\* C20 witness: the crossfade window has just passed: the action that was
\* triggered second is current at weight 1 and the first one is at weight 0.
C20_Witness ==
  /\ Len(avatar.actions) = 2
  /\ avatar.currentAction = 2
  /\ avatar.actions[2].mixer = avatar.currentMixer
  /\ avatar.actions[2].fade = "in"
  /\ avatar.actions[2].fadeT = CROSSFADE_MS
  /\ avatar.actions[2].w = ONE
  /\ avatar.actions[1].fade = "out"
  /\ avatar.actions[1].w = 0

ActionActive(av) ==
  \E k \in 1..Len(av.actions) :
    /\ av.actions[k].mixer = av.currentMixer
    /\ av.actions[k].st # "stopped"
    /\ av.actions[k].enabled

\* C22: on every frame the procedural body is applied if and only if no action
\* clip is playing or fading out on the avatar.
C22_BodyIffNoAction ==
  [][AnimateFrame(MAX_DELTA_MS, 0, 0) =>
       (face'.proceduralBody <=> ~ActionActive(avatar'))
    ]_vars

\* C23: a clip load that fails starts no action and changes neither the
\* current action nor the expression, lip, blink or audio-queue state; a
\* message whose action has an unsupported file type changes nothing at all;
\* and without an avatar or a mixer no load is started for any action path.
C23_FailedLoad ==
  [][/\ \A k \in 1..Len(loads) :
          ActionLoadFailed(k) =>
            UNCHANGED <<avatar, face, ttsPlayer, audios, timers, started, ws, sockets>>
     /\ \A i \in 1..Len(sockets), p \in ActionPayloads :
          OnMessage(i, p) /\ FileType(p.action) \notin {"fbx", "vrma"} => UNCHANGED vars
     /\ \A path \in ActionPaths \cup {"Wave.VRMA"} :
          /\ ~StartsLoad(path, [avatar EXCEPT !.currentVRM = 0])
          /\ ~StartsLoad(path, [avatar EXCEPT !.currentMixer = 0])
    ]_vars

\* C23 witness: a clip load is pending while an earlier action is current and
\* half-way through its clip: the state a failing load must leave alone.
C23_Witness ==
  /\ Len(loads) = 1
  /\ Len(avatar.actions) = 1
  /\ avatar.currentAction = 1
  /\ Playing(avatar, 1)
  /\ avatar.actions[1].time = 300

\* nothing is active: the queue is empty, nothing is marked as playing and
\* there is no current audio
Idle ==
  /\ ttsPlayer._queue = <<>>
  /\ ~ttsPlayer._playing
  /\ ttsPlayer._currentAudio = 0

C25_UnknownTagIsNeutral ==
  avatar.hasInitializedOnce =>
    \A tag \in EmotionTags \ EXPR_KEYS :
      /\ setEmotion(face, tag)._activeExpr = setEmotion(face, "neutral")._activeExpr
      /\ setEmotion(face, tag)._exprTarget = setEmotion(face, "neutral")._exprTarget

\* the positions of the emoji of text t
EmojiAt(t) == {k \in 1..Len(t) : t[k] = Emoji}

\* C26: a text with emoji is parsed without failure, and a text that consists
\* of emoji only yields nothing but neutral events (shape null), never a
\* mouth-shape event.
C26_EmojiNeutral ==
  [][\A i \in 1..Len(audios), d \in ParseDurations :
       AudioPlaying(i, d) /\ EmojiAt(audios[i].text) # {} =>
         /\ face'._phonQueue = parse(audios[i].text, d)
         /\ EmojiAt(audios[i].text) = 1..Len(audios[i].text) =>
              \A k \in 1..Len(face'._phonQueue) : face'._phonQueue[k].shape = NoShape
    ]_vars

\* the eyelid weight the frame that left the blink in state st at progress
\* prog wrote (opening: 2 - prog, closing: prog)
Eyelid(st, prog) ==
  IF st = "idle" THEN 0
  ELSE (Clamp(IF st = "closing" THEN prog ELSE 2 * PROG_ONE - prog, 0, PROG_ONE) * ONE)
         \div PROG_ONE

\* C27: the eyelid weight a frame writes is 0 whenever the blink state after
\* the frame is idle, does not fall while the blink is closing, and does not
\* rise in a frame that starts in opening, the frame that ends the opening
\* included.
C27_EyelidWeight ==
  [][\A d \in BlinkDeltas :
       BlinkFrame(d) =>
         /\ face'._blinkState = "idle" => face'.emBlink = 0
         /\ face'._blinkState = "closing" =>
              face'.emBlink >= Eyelid(face._blinkState, face._blinkProg)
         /\ face._blinkState = "opening" =>
              face'.emBlink <= Eyelid(face._blinkState, face._blinkProg)
    ]_vars

\* position k of text t ends a word / starts a run of separators
EndsWord(t, k) == t[k] \notin SepChars /\ (k = Len(t) \/ t[k + 1] \in SepChars)

StartsRun(t, k) == t[k] \in SepChars /\ (k = 1 \/ t[k - 1] \notin SepChars)

\* the word that ends at k has no vowel / the run that starts at k has a strong mark
VowelLess(t, k) ==
  \A j \in 1..k : (\A m \in j..k : t[m] \notin SepChars) => t[j] \notin VowelChars

StrongRun(t, k) ==
  \E j \in k..Len(t) : (\A m \in k..j : t[m] \in SepChars) /\ t[j] \in LongPauseChars

\* The kinds of events the text calls for, in text order, position by position.
RECURSIVE Expected(_, _)
Expected(t, k) ==
  IF k > Len(t) THEN <<>>
  ELSE (IF t[k] \in SepChars
        THEN (IF StartsRun(t, k)
              THEN <<[kind |-> IF StrongRun(t, k) THEN "long" ELSE "short", char |-> t[k]]>>
              ELSE <<>>)
        ELSE (IF t[k] \in VowelChars
              THEN <<[kind |-> "vowel", char |-> t[k]], [kind |-> "close", char |-> t[k]]>>
              ELSE <<>>)
             \o (IF EndsWord(t, k) /\ VowelLess(t, k)
                 THEN <<[kind |-> "open", char |-> t[k]]>> ELSE <<>>)
             \o (IF EndsWord(t, k) THEN <<[kind |-> "pause", char |-> t[k]]>> ELSE <<>>))
       \o Expected(t, k + 1)

C29_LastTriggeredWins ==
  [][\A k \in 1..Len(loads), d \in ClipDurations :
       ActionLoaded(k, d) /\ Len(loads) = 1 /\ Len(avatar.actions) >= 1 =>
         \A j \in 1..Len(avatar'.actions) :
           avatar'.actions[j].seq <= avatar'.actions[avatar'.currentAction].seq
    ]_vars

\* C30: every action that becomes current eventually stops being current (the
\* current action returns to none or another action replaces it) when frames
\* keep running, whether or not the avatar is replaced meanwhile.
C30_CurrentEnds ==
  \A id \in 1..MaxSwapActions :
    (avatar.currentAction = id) ~> (avatar.currentAction # id)

C32_SubmitPreempts ==
  avatar.hasInitializedOnce =>
    LET m == send(Machine)
    IN /\ m.tts._queue = <<>>
       /\ ~m.tts._playing
       /\ m.tts._currentAudio = 0
       /\ \A i \in 1..Len(m.audios) : ~Active(m.audios[i])
       /\ LipTargetsZero(m.face)

\* An item is playing, its lip-sync timeline is still being spoken and the
\* expression of its emotion is the active one.
PlayingWithOwnEmotion ==
  /\ face._speaking
  /\ \E i \in 1..Len(audios) :
       /\ audios[i].st = "playing"
       /\ ~audios[i].paused
       /\ audios[i].emotion # ""
       /\ Preset(audios[i].emotion) # "neutral"
       /\ face._activeExpr = Preset(audios[i].emotion)

\* C33: while an item is playing with the expression of its emotion active (and
\* its own timeline not yet exhausted, so that every pending return to neutral
\* was scheduled during an earlier utterance), no timer callback changes the
\* active expression.
C33_NoStaleNeutral ==
  [][\A k \in 1..Len(timers) :
       PlayingWithOwnEmotion /\ (NeutralTimeout(k) \/ LipNeutralTimeout(k)) =>
         ExpressionUnchanged
    ]_vars

\* the events of the timeline that have not run out: the current one and
\* those that wait
Remaining(f) ==
  (IF f._phonCurrent = <<>> THEN <<>> ELSE <<f._phonCurrent>>) \o f._phonQueue

\* the timeline is consumed from the front: what remains of it is a suffix of
\* the timeline startSpeaking built
InOrder ==
  \A i \in 1..Len(audios) :
    audios[i].st = "playing" /\ face._speaking =>
      LET tl == parse(audios[i].text, audios[i].duration)
      IN \E n \in 0..Len(tl) : Remaining(face) = SubSeq(tl, n + 1, Len(tl))

\* C34: while an utterance of measured duration D is spoken without
\* interruption, a frame makes at most the next event of the timeline current
\* (in order, none skipped), and the lip layer has stopped itself by the time
\* D plus one frame time has passed since startSpeaking.
C34_TimelineSpansAudio ==
  /\ []InOrder
  /\ [][face'._speaking /\ face'._phonQueue # face._phonQueue /\ face._speaking =>
          /\ face._phonQueue # <<>>
          /\ face'._phonCurrent = Head(face._phonQueue)
          /\ face'._phonQueue = Tail(face._phonQueue)
       ]_vars
  /\ [](\A i \in 1..Len(audios) :
          audios[i].st = "playing" /\ face._speaking =>
            env.frames * env.delta < audios[i].duration + env.delta)

\* In the machine a handler leaves behind, an item that can still deliver a
\* callback has had its object URL revoked at most once, and an item that can
\* deliver no callback any more has had it revoked exactly once.
ReleasedOnce(m) ==
  \A k \in 1..Len(m.audios) :
    IF Live(m.audios[k]) THEN m.audios[k].revoked <= 1 ELSE m.audios[k].revoked = 1

\* C35: whichever way a started item comes to its end (ended, error, play()
\* rejection, clear() on a user submit), once no callback of it is left its
\* object URL has been revoked exactly once, and it is never revoked twice.
C35_ReleasedOnce ==
  [][/\ \A i \in 1..Len(audios) :
          /\ AudioEnded(i) =>
               ReleasedOnce(onFinished([Machine EXCEPT !.audios[i].st = "ended"], i))
          /\ AudioError(i) =>
               ReleasedOnce(onFinished([Machine EXCEPT
                              !.audios[i].st = "failed",
                              !.audios[i].promise = IF @ = "pending" THEN "rejecting" ELSE @], i))
          /\ PlayRejected(i) =>
               ReleasedOnce(onPlayRejected([Machine EXCEPT
                              !.audios[i].promise = "rejected",
                              !.audios[i].st = IF audios[i].promise = "pending"
                                               THEN "blocked" ELSE @], i))
     /\ UserSubmit => ReleasedOnce(send(Machine))
    ]_vars

\* C36: the live blend weights (_exprCurrent, _lipCurrent) change only in a
\* step that renders a frame or loads an avatar: the inbound-message handler
\* (setEmotion, enqueue), the user submit (clear), the audio callbacks
\* (startSpeaking, stopSpeaking, setEmotion) and the timer callbacks leave
\* them as they are.
C36_OnlyFramesBlend ==
  [][face'._exprCurrent # face._exprCurrent \/ face'._lipCurrent # face._lipCurrent =>
       env'.frames # env.frames \/ env'.avatars # env.avatars
    ]_vars

\* C36 witness: after a frame that opened the mouth and faded 'happy' in part
\* of the way, a user submit has stopped the lip layer and made another
\* expression active: the targets have moved, the live weights are still where
\* the frame left them.
C36_Witness ==
  /\ env.frames = 1
  /\ ~face._speaking
  /\ LipTargetsZero(face)
  /\ \E n \in LIP_SHAPES : face._lipCurrent[n] > 0
  /\ face._activeExpr = "relaxed"
  /\ face._exprTarget["happy"] = 0
  /\ face._exprCurrent["happy"] > 0
  /\ face._exprCurrent["happy"] < ONE

\* C37: once an avatar is loaded, at most one lip shape has a non-zero target,
\* every lip target is between 0 and 1, and every lip target is 0 whenever the
\* lip layer is not speaking.
C37_LipTargets ==
  avatar.hasInitializedOnce =>
    /\ Cardinality({n \in LIP_SHAPES : Get(face._lipTarget, n, 0) # 0}) <= 1
    /\ \A n \in DOMAIN face._lipTarget : face._lipTarget[n] >= 0 /\ face._lipTarget[n] <= ONE
    /\ ~face._speaking => LipTargetsZero(face)

\* C37 witness: the second syllable of "ya" is being spoken: the target of its
\* shape is open, the target of the first syllable's shape is back at 0 while
\* the mouth still shows it.
C37_Witness ==
  /\ avatar.hasInitializedOnce
  /\ face._speaking
  /\ face._lipTarget["aa"] > 0
  /\ face._lipTarget["ih"] = 0
  /\ face._lipCurrent["ih"] > 0

\* the connections that are connecting or open
LiveSockets == {i \in 1..Len(sockets) : sockets[i] \in {"connecting", "open"}}

\* the pending reconnect timers
ReconnectTimers == {k \in 1..Len(timers) : timers[k].kind = "reconnect"}

\* C38: at most one connection is connecting or open, at most one reconnect
\* timer is pending, and never both at once, however often the connection is
\* closed and the avatar is loaded; the client's socket is the newest one.
C38_OneConnection ==
  /\ Cardinality(LiveSockets) + Cardinality(ReconnectTimers) <= 1
  /\ ws.socket = Len(sockets)

\* C38 witness: after every close and every avatar load the bounds allow, one
\* connection is open and no reconnect timer is pending.
C38_Witness ==
  /\ env.closes = MaxCloses
  /\ env.avatars = MaxAvatars
  /\ LiveSockets = {Len(sockets)}
  /\ sockets[Len(sockets)] = "open"
  /\ Len(sockets) = MaxCloses + 1
  /\ ReconnectTimers = {}

\* C39: between two handlers, when nothing is marked as playing the queue is
\* empty; and every item that waits in the queue eventually leaves it (it is
\* taken by _playNext or discarded by clear()) when every started item
\* eventually gets its ended, error or rejection callback.
C39_QueueDrains ==
  /\ [](~ttsPlayer._playing => ttsPlayer._queue = <<>>)
  /\ \A n \in 1..MaxItems : (n \in QueueIds) ~> (n \notin QueueIds)

\* C39 witness: two items wait in the queue behind an item that is playing.
C39_Witness ==
  /\ ttsPlayer._playing
  /\ Len(ttsPlayer._queue) = 2
  /\ \E i \in 1..Len(audios) : audios[i].st = "playing" /\ Active(audios[i])

====
